---- MODULE Spec2Model ----
(***************************************************************************)
(* TikTok Ads creation agent: the AdConfig validation model, the           *)
(* ErrorInterpreter table and the ConversationManager turn handler of      *)
(* src/agent.py and src/mock_api.py; the MockTikTokAPI of src/mock_api.py; *)
(* the RealTikTokAPI of src/src/api_real.py; chat_interface of            *)
(* src/src/ui.py with the AdAgent and the MockTikTokAPI of src/src; the    *)
(* /callback route of src/src/server.py with the anti-forgery state of     *)
(* RealTikTokAPI; the callback thread and the conversation thread on the   *)
(* shared api_client; and the standalone server of src/oauth_server.py.    *)
(*                                                                         *)
(* Python values.  A str is the tuple of its characters, so that len() and *)
(* strip() are computed on it.  None is the one-element tuple <<"None">>;  *)
(* "None" is not a character, so None is never a str.  A dict is a         *)
(* function whose DOMAIN is its set of keys: an absent key is a key that   *)
(* is not in the DOMAIN.                                                   *)
(***************************************************************************)
EXTENDS Integers, Sequences, FiniteSets, TLC

VARIABLES
    ad_config,   \* ConversationManager.ad_config (dict field -> str)
    messages,    \* ConversationManager.messages (roles of the entries)
    action,      \* action of the last turn's (possibly synthesized) response
    reply,       \* what the last turn returned
    created,     \* payload of the create_ad call of the last turn, or NoCall
    kwargs,      \* keyword arguments of a direct AdConfig(...) construction
    model,       \* outcome of that construction
    m_cfg,       \* configuration a merge starts from
    m_delta,     \* response["state"] that is merged
    m_out,       \* configuration after the merges applied so far
    m_n          \* number of times m_delta was merged

\* MockTikTokAPI of src/mock_api.py
VARIABLES
    simulate_failures,  \* MockTikTokAPI.simulate_failures
    failure_rate,       \* MockTikTokAPI.failure_rate, in hundredths
    valid_music_ids,    \* MockTikTokAPI.valid_music_ids (list of str)
    uploaded_music,     \* MockTikTokAPI.uploaded_music (dict id -> record)
    mk_returned,        \* music ids returned by the successful uploads so far
    mk_call             \* the last call of the mock and what it returned

\* RealTikTokAPI of src/src/api_real.py
VARIABLES
    access_token,   \* RealTikTokAPI.access_token
    refresh_token,  \* RealTikTokAPI.refresh_token
    expires_at,     \* RealTikTokAPI.expires_at, in seconds
    now,            \* time.time(), in seconds
    rl_call         \* the last call of the RealTikTokAPI and what it did

\* chat_interface of src/src/ui.py with the AdAgent of src/src/agent.py
\* and the MockTikTokAPI of src/src/api_mock.py
VARIABLES
    collected_data,     \* AdAgent.collected_data
    history,            \* AdAgent.history (its number of entries)
    chat,               \* number of entries of the chat history
    mock_access_token,  \* MockTikTokAPI.access_token
    mock_failures,      \* MockTikTokAPI.mock_failures["geo"]
    ui_turn             \* what the last chat_interface call did

\* AdAgent.process_message of src/src/agent.py called on its own
VARIABLES
    pm_call     \* the last process_message call and what it did

\* ConversationManager.process_message of src/agent.py, turn by turn
VARIABLES
    calls,      \* process_message calls since construction or the last reset
    cm_turn     \* what the last process_message call did

\* The /callback route of src/src/server.py with RealTikTokAPI (live mode)
VARIABLES
    state_file,   \* the state kept in oauth_state.json, or None without file
    issued,       \* the states get_auth_url has issued
    last_issued,  \* the state of the most recent get_auth_url, or None
    accepted,     \* the states verify_state has accepted in a callback
    cb_call       \* the last callback request and what it did

\* save_token on the callback thread and ensure_token on the conversation
\* thread, statement by statement, on the one api_client of
\* src/src/instances.py
VARIABLES
    lt,         \* callback thread: where it is in save_token, and its arguments
    tt,         \* conversation thread: where it is in ensure_token, and what it read
    et_call,    \* the last validity test of ensure_token
    saved,      \* the <<access token, expiry>> pairs of the credentials stored so far
    writer,     \* the thread that last assigned each credential field
    n_saves     \* save_token calls begun on the callback thread

\* src/oauth_server.py
VARIABLES
    session,        \* session id -> session.get("oauth_state")
    session_issued, \* session id -> the states /authorize issued in it
    ACCESS_TOKEN,
    REFRESH_TOKEN,
    TOKEN_EXPIRY,
    fl_call         \* the last /callback request and what it did

agentVars == <<ad_config, messages, action, reply, created, kwargs, model,
               m_cfg, m_delta, m_out, m_n>>

mockVars == <<simulate_failures, failure_rate, valid_music_ids,
              uploaded_music, mk_returned, mk_call>>

realVars == <<access_token, refresh_token, expires_at, now, rl_call>>

uiVars == <<collected_data, history, chat, mock_access_token,
            mock_failures, ui_turn>>

adAgentVars == <<pm_call>>

turnVars == <<calls, cm_turn>>

oauthVars == <<state_file, issued, last_issued, accepted, cb_call>>

raceVars == <<lt, tt, et_call, saved, writer, n_saves>>

flaskVars == <<session, session_issued, ACCESS_TOKEN, REFRESH_TOKEN, TOKEN_EXPIRY, fl_call>>

laterVars == <<adAgentVars, turnVars, oauthVars, raceVars, flaskVars>>

capabilityVars == <<mockVars, realVars, uiVars, laterVars>>

\* What a step of one part leaves unchanged.
exceptMock == <<agentVars, realVars, uiVars, laterVars>>
exceptReal == <<agentVars, mockVars, uiVars, laterVars>>
exceptUi == <<agentVars, mockVars, realVars, laterVars>>

vars == <<agentVars, capabilityVars>>

\* ------------------------------------------------------------------------
\* Bounds of the explored inputs
\* ------------------------------------------------------------------------
MaxPad == 1
MaxCore == 4
TextSlack == 1
MaxTurns == 2
MaxDeltaFields == 2
MaxMerges == 2

\* ------------------------------------------------------------------------
\* Python strings
\* ------------------------------------------------------------------------
None == <<"None">>

Whitespace == {" ", "\t", "\n"}

Rep(c, n) == [i \in 1..n |-> c]

RECURSIVE LStrip(_)
LStrip(s) ==
    IF Len(s) = 0 THEN <<>>
    ELSE IF Head(s) \in Whitespace THEN LStrip(Tail(s)) ELSE s

RECURSIVE RStrip(_)
RStrip(s) ==
    IF Len(s) = 0 THEN <<>>
    ELSE IF s[Len(s)] \in Whitespace THEN RStrip(SubSeq(s, 1, Len(s) - 1)) ELSE s

Strip(s) == RStrip(LStrip(s))

\* Python truthiness of an Optional[str]: None and "" are falsy.
Falsy(v) == v = None \/ Len(v) = 0

Traffic == <<"T", "r", "a", "f", "f", "i", "c">>
Conversions == <<"C", "o", "n", "v", "e", "r", "s", "i", "o", "n", "s">>

\* ------------------------------------------------------------------------
\* AdConfig (pydantic model with field constraints and validators)
\* ------------------------------------------------------------------------
FieldNames == {"campaign_name", "objective", "ad_text", "cta", "music_id"}

NameMinLength == 3
NameStrippedMin == 3
TextMaxLength == 100
TextValidatorMax == 100

\* One entry of a ValidationError: the field, the message, and the length
\* the message quotes (-1 when it quotes none).
Err(loc, msg, n) == [loc |-> loc, msg |-> msg, current |-> n]

Ok(v) == [ok |-> TRUE, value |-> v, errors |-> {}]
Fail(e) == [ok |-> FALSE, value |-> None, errors |-> {e}]

\* Variant: the length is checked and the value returned without strip().
validate_campaign_name_unstripped(v) ==
    IF Len(v) < NameStrippedMin
    THEN Fail(Err("campaign_name", "Campaign name must be at least 3 characters", -1))
    ELSE Ok(v)

validate_campaign_name(v) ==
    LET s == Strip(v) IN
    IF Len(s) < NameStrippedMin
    THEN Fail(Err("campaign_name", "Campaign name must be at least 3 characters", -1))
    ELSE Ok(s)

validate_objective(v) ==
    IF v \notin {Traffic, Conversions}
    THEN Fail(Err("objective", "Objective must be 'Traffic' or 'Conversions'", -1))
    ELSE Ok(v)

validate_ad_text(v) ==
    IF Len(v) > TextValidatorMax
    THEN Fail(Err("ad_text", "Ad text cannot exceed 100 characters (current: N)", Len(v)))
    ELSE Ok(v)

\* Variant: music is demanded whatever the objective is.
validate_music_logic_always(v, values) ==
    IF Falsy(v)
    THEN Fail(Err("music_id", "Music is REQUIRED when objective is 'Conversions'", -1))
    ELSE IF Len(Strip(v)) = 0
    THEN Fail(Err("music_id", "Music ID cannot be empty", -1))
    ELSE Ok(v)

\* values: the fields validated so far (a failed field is absent from it).
validate_music_logic(v, values) ==
    LET objective == IF "objective" \in DOMAIN values THEN values["objective"] ELSE None IN
    IF objective = Conversions /\ Falsy(v)
    THEN Fail(Err("music_id", "Music is REQUIRED when objective is 'Conversions'", -1))
    ELSE IF v # None /\ Len(Strip(v)) = 0
    THEN Fail(Err("music_id", "Music ID cannot be empty", -1))
    ELSE Ok(v)

\* A required str field: presence and type, then the Field(...) length
\* constraints on the raw value, then the validator of the field.
RequiredField(kw, f) ==
    IF f \notin DOMAIN kw THEN Fail(Err(f, "field required", -1))
    ELSE IF kw[f] = None THEN Fail(Err(f, "none is not an allowed value", -1))
    ELSE Ok(kw[f])

campaign_name_field(kw) ==
    LET r == RequiredField(kw, "campaign_name") IN
    IF ~r.ok THEN r
    ELSE IF Len(r.value) < NameMinLength
    THEN Fail(Err("campaign_name", "ensure this value has at least 3 characters", -1))
    ELSE validate_campaign_name(r.value)

objective_field(kw) ==
    LET r == RequiredField(kw, "objective") IN
    IF ~r.ok THEN r ELSE validate_objective(r.value)

ad_text_field(kw) ==
    LET r == RequiredField(kw, "ad_text") IN
    IF ~r.ok THEN r
    ELSE IF Len(r.value) > TextMaxLength
    THEN Fail(Err("ad_text", "ensure this value has at most 100 characters", -1))
    ELSE validate_ad_text(r.value)

cta_field(kw) == RequiredField(kw, "cta")

\* An Optional field with default None: the validator is not declared
\* always=True, so it runs only when the key is supplied (None included).
music_id_field(kw, values) ==
    IF "music_id" \notin DOMAIN kw THEN Ok(None)
    ELSE validate_music_logic(kw["music_id"], values)

\* AdConfig(**kw): the fields are validated in declaration order and every
\* error is collected; .valid is FALSE when ValidationError is raised and
\* .dict is validated_config.dict() otherwise.
AdConfig(kw) ==
    LET n == campaign_name_field(kw)
        o == objective_field(kw)
        t == ad_text_field(kw)
        c == cta_field(kw)
        okSoFar == {p \in {<<"campaign_name", n>>, <<"objective", o>>,
                           <<"ad_text", t>>, <<"cta", c>>} : p[2].ok}
        values == [f \in {p[1] : p \in okSoFar} |->
                      (CHOOSE p \in okSoFar : p[1] = f)[2].value]
        m == music_id_field(kw, values)
        errors == n.errors \cup o.errors \cup t.errors \cup c.errors \cup m.errors
    IN  [valid |-> errors = {},
         errors |-> errors,
         dict |-> [campaign_name |-> n.value, objective |-> o.value,
                   ad_text |-> t.value, cta |-> c.value, music_id |-> m.value]]

\* ------------------------------------------------------------------------
\* Direct constructions of AdConfig (as src/test.py makes them)
\* ------------------------------------------------------------------------
NotConstructed == [valid |-> FALSE, errors |-> {Err("", "not constructed", -1)},
                   dict |-> [campaign_name |-> None, objective |-> None,
                             ad_text |-> None, cta |-> None, music_id |-> None]]

Padded(l, s, r) == Rep(" ", l) \o s \o Rep(" ", r)

NameInputs == {Padded(l, Rep("a", k), r) : l \in 0..MaxPad, k \in 0..MaxCore, r \in 0..MaxPad}
ObjectiveInputs == {Traffic, Conversions, <<"t", "r", "a", "f", "f", "i", "c">>, <<>>}
TextInputs == {Rep("A", k) : k \in {0} \cup ((TextMaxLength - TextSlack)..(TextMaxLength + TextSlack))}
CtaInputs == {<<>>, <<" ">>, <<"G", "o">>}
MusicInputs == {<<>>, <<"1", "2", "3", "4", "5">>} \cup
               {Padded(l, <<>>, r) : l \in 0..MaxPad, r \in 0..MaxPad}

InputsOf(f) ==
    CASE f = "campaign_name" -> NameInputs
      [] f = "objective" -> ObjectiveInputs
      [] f = "ad_text" -> TextInputs
      [] f = "cta" -> CtaInputs
      [] f = "music_id" -> MusicInputs

\* A keyword either is not passed (<<>>) or is passed a value (<<v>>).
Choices(f) == {<<>>} \cup {<<v>> : v \in InputsOf(f) \cup {None}}

DictOf(c) == [f \in {g \in FieldNames : Len(c[g]) = 1} |-> c[f][1]]

\* Every dict that passes or omits each keyword as Ch allows.
DictsOver(Ch) ==
    {DictOf([campaign_name |-> n, objective |-> o, ad_text |-> t, cta |-> c, music_id |-> m]) :
        n \in Ch["campaign_name"], o \in Ch["objective"],
        t \in Ch["ad_text"], c \in Ch["cta"], m \in Ch["music_id"]}

\* Every dict over a subset of the field names, None included as a value.
KwargsInputs == DictsOver([f \in FieldNames |-> Choices(f)])

\* ------------------------------------------------------------------------
\* Initial values of the parts a specification does not use
\* ------------------------------------------------------------------------
EmptyDict == [f \in {} |-> None]
NoCall == [called |-> FALSE]
NoReply == [kind |-> "none", errors |-> {}, code |-> "", error |-> [explanation |-> <<>>, action |-> "", retryable |-> FALSE, severity |-> "none"], retry_offer |-> FALSE]

ManagerIdle ==
    /\ ad_config = EmptyDict
    /\ messages = <<>>
    /\ action = "none"
    /\ reply = NoReply
    /\ created = NoCall

ConstructIdle ==
    /\ kwargs = EmptyDict
    /\ model = NotConstructed

MergeIdle ==
    /\ m_cfg = EmptyDict
    /\ m_delta = EmptyDict
    /\ m_out = EmptyDict
    /\ m_n = 0

AgentIdle ==
    /\ ManagerIdle
    /\ ConstructIdle
    /\ MergeIdle

NoMockCall == [op |-> "none", music_id |-> <<>>, rand |-> 0, result |-> [success |-> FALSE, error_code |-> "", message |-> <<>>, music_id |-> <<>>]]

MockIdle ==
    /\ simulate_failures = FALSE
    /\ failure_rate = 0
    /\ valid_music_ids = <<>>
    /\ uploaded_music = EmptyDict
    /\ mk_returned = {}
    /\ mk_call = NoMockCall

NoCode == -1

ApiResult(status, code, message, ad_id) ==
    [status |-> status, code |-> code, message |-> message, ad_id |-> ad_id]

NoResult == ApiResult("none", NoCode, "", "")

NoRealCall ==
    [op |-> "none", now |-> 0,
     pre |-> [access_token |-> None, refresh_token |-> None, expires_at |-> 0],
     refresh_responses |-> <<>>, ad_responses |-> <<>>,
     auth |-> NoResult, log |-> <<>>, result |-> NoResult]

RealIdle ==
    /\ access_token = None
    /\ refresh_token = None
    /\ expires_at = 0
    /\ now = 0
    /\ rl_call = NoRealCall

NoPayload == [campaign |-> [name |-> None, objective |-> None], creative |-> EmptyDict]

NoUiTurn ==
    [action |-> "none", validated |-> FALSE, music_id |-> None,
     token |-> None, v_result |-> NoResult,
     submitted |-> FALSE, payload |-> NoPayload, s_result |-> NoResult]

UiIdle ==
    /\ collected_data = EmptyDict
    /\ history = 0
    /\ chat = 0
    /\ mock_access_token = None
    /\ mock_failures = FALSE
    /\ ui_turn = NoUiTurn

NoAgentCall ==
    [called |-> FALSE, pre |-> EmptyDict, first |-> "none", second |-> "none",
     delta |-> EmptyDict, calls |-> 0, merged |-> FALSE, action |-> "none",
     message |-> "none"]

AdAgentIdle == pm_call = NoAgentCall

NoTurn ==
    [llm_ok |-> FALSE, capability |-> "none", outcome |-> "not_called",
     appended |-> NoReply, submit |-> FALSE, submit_pre |-> EmptyDict]

TurnIdle ==
    /\ calls = 0
    /\ cm_turn = NoTurn

NoExchange == [raised |-> FALSE, code |-> NoCode, data |-> EmptyDict]

NoCallback ==
    [called |-> FALSE, code |-> None, state |-> None, verified |-> FALSE,
     exchanged |-> FALSE, page |-> "none",
     response |-> NoExchange,
     pre |-> [access_token |-> None, refresh_token |-> None, expires_at |-> 0],
     replay |-> FALSE]

OAuthIdle ==
    /\ state_file = None
    /\ issued = {}
    /\ last_issued = None
    /\ accepted = {}
    /\ cb_call = NoCallback

NoGrant == [access_token |-> None, refresh_token |-> None, expires_in |-> 0]

NoTest == [made |-> FALSE, access_token |-> None, expires_at |-> 0, valid |-> FALSE]

RaceIdle ==
    /\ lt = [pc |-> "idle", grant |-> NoGrant]
    /\ tt = [pc |-> "idle", access_token |-> None]
    /\ et_call = NoTest
    /\ saved = {}
    /\ writer = [f \in {"access_token", "refresh_token", "expires_at"} |-> "constructor"]
    /\ n_saves = 0

SessionIds == {1, 2}

\* TOKEN_EXPIRY = None
NoExpiry == NoCode

NoFlaskCall ==
    [called |-> FALSE, sid |-> 1, state |-> None, auth_code |-> None,
     exchanged |-> FALSE, status |-> 0, pre |-> None, issued |-> {}]

FlaskIdle ==
    /\ session = [sid \in SessionIds |-> None]
    /\ session_issued = [sid \in SessionIds |-> {}]
    /\ ACCESS_TOKEN = None
    /\ REFRESH_TOKEN = None
    /\ TOKEN_EXPIRY = NoExpiry
    /\ fl_call = NoFlaskCall

LaterIdle ==
    /\ AdAgentIdle
    /\ TurnIdle
    /\ OAuthIdle
    /\ RaceIdle
    /\ FlaskIdle

CapabilitiesIdle ==
    /\ MockIdle
    /\ RealIdle
    /\ UiIdle
    /\ LaterIdle

\* ------------------------------------------------------------------------
\* Specification of direct AdConfig constructions
\* ------------------------------------------------------------------------
InitValidate ==
    /\ ManagerIdle
    /\ MergeIdle
    /\ CapabilitiesIdle
    /\ kwargs \in KwargsInputs
    /\ model = NotConstructed

Construct ==
    /\ model = NotConstructed
    /\ model' = AdConfig(kwargs)
    /\ UNCHANGED <<ad_config, messages, action, reply, created, kwargs,
                   m_cfg, m_delta, m_out, m_n>>
    /\ UNCHANGED capabilityVars

NextValidate == Construct

SpecValidate == InitValidate /\ [][NextValidate]_vars

\* ------------------------------------------------------------------------
\* ErrorInterpreter (src/mock_api.py)
\* ------------------------------------------------------------------------
\* Variant of the table: the geo restriction offered for retry.
ERRORS_geo_retryable ==
    [INVALID_TOKEN |->
        [explanation |-> <<"Your TikTok access token has expired or is invalid.">>,
         action |-> "I'll attempt to refresh your token automatically.",
         retryable |-> TRUE, severity |-> "medium"],
     INSUFFICIENT_PERMISSIONS |->
        [explanation |-> <<"Your TikTok app doesn't have the required permissions to create ads.">>,
         action |-> "Enable 'Ads Management' scope, then re-authenticate.",
         retryable |-> FALSE, severity |-> "high"],
     MUSIC_NOT_FOUND |->
        [explanation |-> <<"The music ID you provided doesn't exist in TikTok's library or has been removed.">>,
         action |-> "Try a different music ID, upload your own music, or proceed without music.",
         retryable |-> FALSE, severity |-> "low"],
     INVALID_MUSIC_ID |->
        [explanation |-> <<"This music track cannot be used for TikTok ads, possibly due to licensing restrictions.">>,
         action |-> "Please choose a different music track or upload your own music.",
         retryable |-> FALSE, severity |-> "medium"],
     GEO_RESTRICTED |->
        [explanation |-> <<"This feature is not available in your geographical region.">>,
         action |-> "You may need to use a different account or contact TikTok Business support.",
         retryable |-> TRUE, severity |-> "high"]]

\* A message text is the tuple of the parts it is formatted from.
ERRORS ==
    [INVALID_TOKEN |->
        [explanation |-> <<"Your TikTok access token has expired or is invalid.">>,
         action |-> "I'll attempt to refresh your token automatically.",
         retryable |-> TRUE, severity |-> "medium"],
     INSUFFICIENT_PERMISSIONS |->
        [explanation |-> <<"Your TikTok app doesn't have the required permissions to create ads.">>,
         action |-> "Enable 'Ads Management' scope, then re-authenticate.",
         retryable |-> FALSE, severity |-> "high"],
     MUSIC_NOT_FOUND |->
        [explanation |-> <<"The music ID you provided doesn't exist in TikTok's library or has been removed.">>,
         action |-> "Try a different music ID, upload your own music, or proceed without music.",
         retryable |-> FALSE, severity |-> "low"],
     INVALID_MUSIC_ID |->
        [explanation |-> <<"This music track cannot be used for TikTok ads, possibly due to licensing restrictions.">>,
         action |-> "Please choose a different music track or upload your own music.",
         retryable |-> FALSE, severity |-> "medium"],
     GEO_RESTRICTED |->
        [explanation |-> <<"This feature is not available in your geographical region.">>,
         action |-> "You may need to use a different account or contact TikTok Business support.",
         retryable |-> FALSE, severity |-> "high"]]

\* Variant: a lookup without default, so an unmapped code raises KeyError
\* (the empty explanation stands for the raise).
interpret_strict(error_code) ==
    IF error_code \in DOMAIN ERRORS THEN ERRORS[error_code]
    ELSE [explanation |-> <<>>, action |-> "", retryable |-> FALSE, severity |-> "none"]

\* cls.ERRORS.get(error_code, default)
interpret(error_code) ==
    IF error_code \in DOMAIN ERRORS THEN ERRORS[error_code]
    ELSE [explanation |-> <<"An unexpected error occurred: ", error_code>>,
          action |-> "Please try again. If the issue persists, contact support.",
          retryable |-> TRUE, severity |-> "medium"]

NoError == [explanation |-> <<>>, action |-> "", retryable |-> FALSE, severity |-> "none"]

\* ------------------------------------------------------------------------
\* ConversationManager (src/agent.py)
\* ------------------------------------------------------------------------
\* Variant: every key of the state is assigned, null included.
Merge_assign_null(cfg, state) ==
    [k \in DOMAIN cfg \cup DOMAIN state |-> IF k \in DOMAIN state THEN state[k] ELSE cfg[k]]

\* self.ad_config after the loop over response["state"].items().
Merge(cfg, state) ==
    LET set == {k \in DOMAIN state : state[k] # None} IN
    [k \in DOMAIN cfg \cup set |-> IF k \in set THEN state[k] ELSE cfg[k]]

\* The merge of process_message: skipped when the response carries no
\* "state" or an empty one.
MergeState(cfg, state) == IF DOMAIN state # {} THEN Merge(cfg, state) ELSE cfg

\* dict.get(key) with default None
Get(d, k) == IF k \in DOMAIN d THEN d[k] ELSE None

Put(d, k, v) == [x \in DOMAIN d \cup {k} |-> IF x = k THEN v ELSE d[x]]

Reply(kind, errors, code, error, retry) ==
    [kind |-> kind, errors |-> errors, code |-> code, error |-> error, retry_offer |-> retry]

\* Result of a capability call: success, a failure result carrying an
\* error code, or a raised exception.
Success == [kind |-> "success", code |-> ""]
Raised == [kind |-> "raise", code |-> ""]
Failure(code) == [kind |-> "failure", code |-> code]

\* "except Exception as e" of process_message: the apology that is appended
\* and returned in place of the exception.
ErrorMessage_propagated == Reply("raised", {}, "", NoError, FALSE)
ErrorMessage == Reply("exception", {}, "", NoError, FALSE)

_validate_music(cfg, result) ==
    IF Falsy(Get(cfg, "music_id"))
    THEN Reply("provide_music_id", {}, "", NoError, FALSE)
    ELSE CASE result.kind = "success" -> Reply("music_validated", {}, "", NoError, FALSE)
           [] result.kind = "failure" ->
                Reply("api_error", {}, result.code, interpret(result.code), FALSE)
           [] result.kind = "raise" -> ErrorMessage

UploadedId == <<"U", "P", "L", "O", "A", "D", "_", "1">>

_upload_music(result) ==
    CASE result.kind = "success" -> Reply("music_uploaded", {}, "", NoError, FALSE)
      [] result.kind = "failure" ->
            Reply("api_error", {}, result.code, interpret(result.code), FALSE)
      [] result.kind = "raise" -> ErrorMessage

_submit_ad(cfg, result) ==
    LET validated_config == AdConfig(cfg) IN
    IF ~validated_config.valid
    THEN Reply("validation_failed", validated_config.errors, "", NoError, FALSE)
    ELSE CASE result.kind = "success" -> Reply("ad_created", {}, "", NoError, FALSE)
           [] result.kind = "failure" ->
                LET error == interpret(result.code) IN
                Reply("submission_failed", {}, result.code, error, error.retryable)
           [] result.kind = "raise" -> Reply("unexpected_error", {}, "", NoError, FALSE)

\* self.ad_config when _submit_ad returns: the method reads it into
\* AdConfig(**self.ad_config) and builds the payload from
\* validated_config.dict(); it assigns nothing to self.ad_config.
ConfigAfterSubmit_normalised(cfg, result) ==
    IF AdConfig(cfg).valid THEN AdConfig(cfg).dict ELSE cfg
ConfigAfterSubmit(cfg, result) == cfg

\* The payload create_ad is called with in _submit_ad, or NoCall.
Payload(d) == [called |-> TRUE, dict |-> d]

SubmitCall(cfg) ==
    LET validated_config == AdConfig(cfg) IN
    IF validated_config.valid THEN Payload(validated_config.dict) ELSE NoCall

\* Inputs of a turn ----------------------------------------------------
TurnValues(f) ==
    CASE f = "campaign_name" -> {Padded(MaxPad, Rep("a", 2), MaxPad), Padded(MaxPad, Rep("a", 3), MaxPad)}
      [] f = "objective" -> {Traffic, Conversions, <<"t", "r", "a", "f", "f", "i", "c">>}
      [] f = "ad_text" -> {Rep("A", TextMaxLength), Rep("A", TextMaxLength + 1)}
      [] f = "cta" -> {<<>>, <<"G", "o">>}
      [] f = "music_id" -> {<<>>, <<" ">>, <<"1", "2", "3", "4", "5">>}

TurnChoices(f) == {<<>>} \cup {<<v>> : v \in TurnValues(f) \cup {None}}

\* The "state" objects a response can carry: no key, one key (a value or
\* null), or all five keys of the response schema.
EmptyState == {EmptyDict}

OneKeyStates == {[k \in {f} |-> v] : <<f, v>> \in UNION {{f} \X (TurnValues(f) \cup {None}) : f \in FieldNames}}

FullStates ==
    [campaign_name : {Padded(MaxPad, Rep("a", 3), MaxPad)},
     objective : {Traffic, Conversions},
     ad_text : {Rep("A", TextMaxLength)},
     cta : {<<>>, <<"G", "o">>},
     music_id : {None, <<"1", "2", "3", "4", "5">>}]

Deltas == EmptyState \cup OneKeyStates \cup FullStates

Actions == {"collect", "validate_music", "upload_music", "submit"}

\* What LLMClient.get_response returns when the model answers: action may be
\* missing or any string; a response without "message" fails the turn
\* before anything else of it is read.
Responses ==
    [has_message : {TRUE}, action : Actions \cup {"absent", "other"}, state : Deltas]
    \cup {[has_message |-> FALSE, action |-> "absent", state |-> EmptyDict]}

\* The fallback get_response synthesizes when the call or the parse fails.
Fallback(context) == [has_message |-> TRUE, action |-> "collect", state |-> context]

ErrorCodes == DOMAIN ERRORS \cup {"RATE_LIMITED", "UNKNOWN_ERROR_12345"}

NotCalled == [kind |-> "not_called", code |-> ""]

ApiResults == {Success, Raised} \cup {Failure(c) : c \in ErrorCodes}

\* The results a capability call can have, when the call is made.
ResultsIf(called) == IF called THEN ApiResults ELSE {NotCalled}

Turns == Len(messages) \div 2

TwoEntries_unanswered == <<"user">>
TwoEntries == <<"user", "assistant">>

\* What a turn did: whether the language model answered, the capability
\* that was called and how the call ended, the content of the assistant
\* entry that was appended, and self.ad_config when _submit_ad began.
TurnLog(llm_ok, capability, result, agent_msg, submit, cfg) ==
    [llm_ok |-> llm_ok,
     capability |-> IF result.kind = "not_called" THEN "none" ELSE capability,
     outcome |-> result.kind, appended |-> agent_msg,
     submit |-> submit, submit_pre |-> cfg]

\* process_message, given whether get_response got an answer from the
\* language model (llm_ok) and the answer it parsed.
ProcessMessage(llm_ok, resp) ==
    LET response == IF llm_ok THEN resp ELSE Fallback(ad_config)
        act == IF response.action = "absent" THEN "collect" ELSE response.action
        merged == MergeState(ad_config, response.state)
    IN
    /\ Turns < MaxTurns
    /\ messages' = messages \o TwoEntries
    /\ calls' = calls + 1
    /\ IF ~response.has_message
       THEN /\ reply' = ErrorMessage
            /\ action' = "none"
            /\ created' = NoCall
            /\ UNCHANGED ad_config
            /\ cm_turn' = TurnLog(llm_ok, "none", NotCalled, reply', FALSE, EmptyDict)
       ELSE /\ action' = act
            /\ CASE act = "validate_music" ->
                      /\ \E result \in ResultsIf(~Falsy(Get(merged, "music_id"))) :
                            /\ reply' = _validate_music(merged, result)
                            /\ cm_turn' = TurnLog(llm_ok, "validate_music_id", result,
                                                  reply', FALSE, EmptyDict)
                      /\ ad_config' = merged
                      /\ created' = NoCall
                 [] act = "upload_music" ->
                      \E result \in ApiResults :
                         /\ reply' = _upload_music(result)
                         /\ ad_config' = IF result.kind = "success"
                                         THEN Put(merged, "music_id", UploadedId)
                                         ELSE merged
                         /\ created' = NoCall
                         /\ cm_turn' = TurnLog(llm_ok, "upload_music", result,
                                               reply', FALSE, EmptyDict)
                 [] act = "submit" ->
                      /\ \E result \in ResultsIf(AdConfig(merged).valid) :
                            /\ reply' = _submit_ad(merged, result)
                            /\ ad_config' = ConfigAfterSubmit(merged, result)
                            /\ cm_turn' = TurnLog(llm_ok, "create_ad", result,
                                                  reply', TRUE, merged)
                      /\ created' = SubmitCall(merged)
                 [] OTHER ->
                      /\ reply' = Reply("message", {}, "", NoError, FALSE)
                      /\ ad_config' = merged
                      /\ created' = NoCall
                      /\ cm_turn' = TurnLog(llm_ok, "none", NotCalled, reply',
                                            FALSE, EmptyDict)
    /\ UNCHANGED <<kwargs, model, m_cfg, m_delta, m_out, m_n>>
    /\ UNCHANGED <<mockVars, realVars, uiVars, adAgentVars, oauthVars, raceVars, flaskVars>>

reset ==
    /\ messages # <<>>
    /\ messages' = <<>>
    /\ ad_config' = EmptyDict
    /\ action' = "none"
    /\ reply' = NoReply
    /\ created' = NoCall
    /\ calls' = 0
    /\ cm_turn' = NoTurn
    /\ UNCHANGED <<kwargs, model, m_cfg, m_delta, m_out, m_n>>
    /\ UNCHANGED <<mockVars, realVars, uiVars, adAgentVars, oauthVars, raceVars, flaskVars>>

NoResponse == [has_message |-> FALSE, action |-> "absent", state |-> EmptyDict]

Init ==
    /\ ManagerIdle
    /\ ConstructIdle
    /\ MergeIdle
    /\ CapabilitiesIdle

Next ==
    \/ \E resp \in Responses : ProcessMessage(TRUE, resp)
    \/ ProcessMessage(FALSE, NoResponse)
    \/ reset

Spec == Init /\ [][Next]_vars

\* ------------------------------------------------------------------------
\* Specification of the merge alone
\* ------------------------------------------------------------------------
\* Configurations ad_config can hold: any keys, never a null value.
NonNullChoices(f) == TurnChoices(f) \ {<<None>>}

MergeConfigs == DictsOver([f \in FieldNames |-> NonNullChoices(f)])

\* "state" objects of at most MaxDeltaFields keys, null values included.
MergeDeltas == {d \in DictsOver([f \in FieldNames |-> TurnChoices(f)]) : Cardinality(DOMAIN d) <= MaxDeltaFields}

InitMerge ==
    /\ ManagerIdle
    /\ ConstructIdle
    /\ CapabilitiesIdle
    /\ m_cfg \in MergeConfigs
    /\ m_delta \in MergeDeltas
    /\ m_out = m_cfg
    /\ m_n = 0

ApplyMerge ==
    /\ m_n < MaxMerges
    /\ m_out' = MergeState(m_out, m_delta)
    /\ m_n' = m_n + 1
    /\ UNCHANGED <<ad_config, messages, action, reply, created, kwargs, model,
                   m_cfg, m_delta>>
    /\ UNCHANGED capabilityVars

NextMerge == ApplyMerge

SpecMerge == InitMerge /\ [][NextMerge]_vars

\* ------------------------------------------------------------------------
\* MockTikTokAPI (src/mock_api.py)
\* ------------------------------------------------------------------------
MaxUploads == 2
MaxUploadIds == 2

Digit == <<"0", "1", "2", "3", "4", "5", "6", "7", "8", "9">>

\* str(n) of a natural number: its decimal digits.
RECURSIVE Decimal(_)
Decimal(n) ==
    IF n < 10 THEN <<Digit[n + 1]>>
    ELSE Decimal(n \div 10) \o <<Digit[(n % 10) + 1]>>

\* str.startswith
StartsWith(s, prefix) ==
    /\ Len(s) >= Len(prefix)
    /\ SubSeq(s, 1, Len(prefix)) = prefix

Range(seq) == {seq[i] : i \in DOMAIN seq}

UploadPrefix == <<"U", "P", "L", "O", "A", "D", "_">>

Catalogue ==
    << <<"1", "2", "3", "4", "5">>, <<"6", "7", "8", "9", "0">>,
       <<"1", "1", "1", "1", "1">>, <<"2", "2", "2", "2", "2">>,
       <<"3", "3", "3", "3", "3">> >>

\* random.randint(10000, 99999): the numbers the exploration draws.
RandintLow == 10000
UploadNumbers == RandintLow .. (RandintLow + MaxUploadIds - 1)

UploadId(n) == UploadPrefix \o Decimal(n)

\* random.random() lies in [0.0, 1.0): the draws, in hundredths.
RandomDraws == {0, 9, 10, 99}

\* Values of the failure_rate parameter, in hundredths (0.0, 0.1, 1.0).
FailureRates == {0, 10, 100}

MockFiles == {"track.mp3", "song.wav"}

\* Music ids the calls are made with: catalogue entries, ids that are in
\* no catalogue, every id an upload can return, and an "UPLOAD_" id that
\* no upload returns.
MockMusicIds ==
    {Catalogue[1], Catalogue[5], <<"9", "9", "9", "9", "9">>, <<>>,
     <<"U", "P", "L", "O", "A", "D">>,
     <<"u", "p", "l", "o", "a", "d", "_", "1">>,
     UploadPrefix \o <<"7">>}
    \cup {UploadId(n) : n \in UploadNumbers}

MockResult(ok, code, msg, mid) ==
    [success |-> ok, error_code |-> code, message |-> msg, music_id |-> mid]

FailureInjected_inverted(sim, rate, rand) == sim /\ rand > rate

\* "if self.simulate_failures and random.random() < self.failure_rate"
FailureInjected(sim, rate, rand) == sim /\ rand < rate

MockAccepts_initial(music_id, ids) == music_id \in Range(Catalogue)

\* "music_id in self.valid_music_ids or music_id.startswith('UPLOAD_')"
MockAccepts(music_id, ids) ==
    \/ music_id \in Range(ids)
    \/ StartsWith(music_id, UploadPrefix)

MusicNotFound_anonymous(music_id) ==
    MockResult(FALSE, "MUSIC_NOT_FOUND", <<"Music ID '", <<>>, "' does not exist or has been removed">>, <<>>)

MusicNotFound(music_id) ==
    MockResult(FALSE, "MUSIC_NOT_FOUND", <<"Music ID '", music_id, "' does not exist or has been removed">>, <<>>)

mock_api_validate_music_id(music_id, rand) ==
    /\ mk_call' =
         [op |-> "validate_music_id", music_id |-> music_id, rand |-> rand,
          result |->
            IF FailureInjected(simulate_failures, failure_rate, rand)
            THEN MockResult(FALSE, "INVALID_TOKEN", <<"Access token has expired">>, <<>>)
            ELSE IF MockAccepts(music_id, valid_music_ids)
            THEN MockResult(TRUE, "", <<>>, music_id)
            ELSE MusicNotFound(music_id)]
    /\ UNCHANGED <<simulate_failures, failure_rate, valid_music_ids,
                   uploaded_music, mk_returned>>
    /\ UNCHANGED exceptMock

mock_api_upload_music(file_path, rand, n) ==
    /\ Len(valid_music_ids) < Len(Catalogue) + MaxUploads
    /\ IF FailureInjected(simulate_failures, failure_rate, rand)
       THEN /\ mk_call' =
                 [op |-> "upload_music", music_id |-> <<>>, rand |-> rand,
                  result |-> MockResult(FALSE, "GEO_RESTRICTED", <<"Music upload is not available in your region">>, <<>>)]
            /\ UNCHANGED <<valid_music_ids, uploaded_music, mk_returned>>
       ELSE LET new_music_id == UploadId(n) IN
            /\ uploaded_music' =
                 [k \in DOMAIN uploaded_music \cup {new_music_id} |->
                    IF k = new_music_id THEN [file_path |-> file_path]
                    ELSE uploaded_music[k]]
            /\ valid_music_ids' = Append(valid_music_ids, new_music_id)
            /\ mk_returned' = mk_returned \cup {new_music_id}
            /\ mk_call' =
                 [op |-> "upload_music", music_id |-> <<>>, rand |-> rand,
                  result |-> MockResult(TRUE, "", <<>>, new_music_id)]
    /\ UNCHANGED <<simulate_failures, failure_rate>>
    /\ UNCHANGED exceptMock

\* MockTikTokAPI(simulate_failures, failure_rate)
InitMock ==
    /\ AgentIdle
    /\ LaterIdle
    /\ RealIdle
    /\ UiIdle
    /\ simulate_failures \in BOOLEAN
    /\ failure_rate \in FailureRates
    /\ valid_music_ids = Catalogue
    /\ uploaded_music = EmptyDict
    /\ mk_returned = {}
    /\ mk_call = NoMockCall

NextMock ==
    \/ \E music_id \in MockMusicIds, rand \in RandomDraws :
          mock_api_validate_music_id(music_id, rand)
    \/ \E file_path \in MockFiles, rand \in RandomDraws, n \in UploadNumbers :
          mock_api_upload_music(file_path, rand, n)

SpecMock == InitMock /\ [][NextMock]_vars

\* ------------------------------------------------------------------------
\* RealTikTokAPI (src/src/api_real.py)
\* ------------------------------------------------------------------------
\* A call is one step.  time.time() is read from the variable now, which
\* does not advance inside a call.  What the platform answers is an input
\* of the call: the answers to the refresh requests and to the ad-create
\* requests, in the order the call consumes them.  An answer that makes the
\* code raise (no JSON, a missing key, no connection) is the "exception"
\* answer of a request and the failed answer of a refresh.
MaxTicks == 2

ExpiryBuffer == 300
DefaultExpiresIn == 86400
SubmitAttempts == 2
LastAttempt == 1
Unauthorized == 401

Instants == {100 * i : i \in 0 .. MaxTicks}

AT1 == <<"a", "t", "1">>
RT1 == <<"r", "t", "1">>
AT2 == <<"a", "t", "2">>
RT2 == <<"r", "t", "2">>

\* What load_token finds: no token file, or a file written by save_token.
StoredCredentials ==
    {[access_token |-> None, refresh_token |-> None, expires_at |-> 0]}
    \cup {[access_token |-> AT1, refresh_token |-> r, expires_at |-> e] :
            r \in {None, RT1}, e \in {400, DefaultExpiresIn}}

\* JSON bodies of the refresh endpoint: a rejection, and grants with and
\* without the optional keys refresh_token and expires_in.
RefreshResponses ==
    {[code |-> 40100, data |-> EmptyDict],
     [code |-> 0, data |-> [access_token |-> AT2, refresh_token |-> RT2]],
     [code |-> 0, data |-> [access_token |-> AT2, refresh_token |-> RT2, expires_in |-> 300]],
     [code |-> 0, data |-> [access_token |-> AT2]]}

\* Answers of the ad-create endpoint.
AdResponses ==
    {[kind |-> "json", code |-> 0, message |-> "OK", ad_id |-> "ad_1"],
     [kind |-> "json", code |-> Unauthorized, message |-> "token rejected", ad_id |-> ""],
     [kind |-> "json", code |-> 40002, message |-> "invalid params", ad_id |-> ""],
     [kind |-> "exception", code |-> NoCode, message |-> "connection error", ad_id |-> ""]}

\* Answers of the music endpoint.
MusicResponses ==
    {[kind |-> "json", code |-> 0, message |-> "OK"],
     [kind |-> "json", code |-> 40002, message |-> "music not found"],
     [kind |-> "exception", code |-> NoCode, message |-> "connection error"]}

SeqsUpTo(S, n) == UNION {[1 .. k -> S] : k \in 0 .. n}

AuthSuccess == ApiResult("success", NoCode, "", "")

SessionExpired == ApiResult("error", Unauthorized, "Session expired. Please reconnect TikTok.", "")

\* The running call: the credential fields, the clock, the answers not yet
\* consumed, the requests made so far and the values of the locals.
CallState(rq, aq) ==
    [access_token |-> access_token, refresh_token |-> refresh_token,
     expires_at |-> expires_at, now |-> now,
     refresh_responses |-> rq, ad_responses |-> aq,
     log |-> <<>>, ok |-> FALSE, auth |-> NoResult, result |-> NoResult]

ExpiresIn(d) == IF "expires_in" \in DOMAIN d THEN d["expires_in"] ELSE DefaultExpiresIn

save_token_no_lifetime(s, access, refresh, expires_in) ==
    [s EXCEPT !.access_token = access, !.refresh_token = refresh,
              !.expires_at = s.now]

\* save_token: the fields it assigns (the token file is written from them).
save_token(s, access, refresh, expires_in) ==
    [s EXCEPT !.access_token = access, !.refresh_token = refresh,
              !.expires_at = s.now + expires_in]

\* refresh_access_token: sets s.ok to the returned bool.
refresh_access_token(s) ==
    IF Falsy(s.refresh_token)
    THEN [s EXCEPT !.ok = FALSE, !.log = Append(@, "refresh_without_token")]
    ELSE LET data == Head(s.refresh_responses)
             t == [s EXCEPT !.refresh_responses = Tail(@)]
         IN  IF data.code = 0
             THEN [save_token(t, data.data["access_token"], Get(data.data, "refresh_token"), ExpiresIn(data.data))
                     EXCEPT !.ok = TRUE, !.log = Append(@, "refresh_ok")]
             ELSE [t EXCEPT !.ok = FALSE, !.log = Append(@, "refresh_failed")]

TokenValid_unbuffered(s) ==
    ~Falsy(s.access_token) /\ s.now < s.expires_at

\* "self.access_token and time.time() < (self.expires_at - 300)"
TokenValid(s) ==
    ~Falsy(s.access_token) /\ s.now < s.expires_at - ExpiryBuffer

\* ensure_token: sets s.auth to the returned dict.
ensure_token(s) ==
    IF TokenValid(s)
    THEN [s EXCEPT !.auth = AuthSuccess]
    ELSE LET r == refresh_access_token(s)
         IN  IF r.ok THEN [r EXCEPT !.auth = AuthSuccess]
             ELSE [r EXCEPT !.auth = SessionExpired]

RetryOn401_always(attempt) == TRUE

\* "and attempt == 0" of the 401 branch
RetryOn401(attempt) == attempt = 0

\* "if attempt == 1: return ..." of the except clause, negated
RetryOnException(attempt) == attempt # LastAttempt

\* "if self.refresh_access_token(): continue" after a failed ensure_token
ForcedRefresh(s) == refresh_access_token(s)

\* The body of "for attempt in range(2)" from the given attempt on, and the
\* return after the loop.
RECURSIVE submit_ad(_, _)
submit_ad(s0, attempt) ==
    IF attempt >= SubmitAttempts
    THEN [s0 EXCEPT !.result = ApiResult("error", NoCode, "Max retries exceeded", "")]
    ELSE
    LET s == ensure_token(s0) IN
    IF s.auth.status = "error" /\ attempt = 0
    THEN LET r == ForcedRefresh(s)
         IN  IF r.ok THEN submit_ad(r, attempt + 1)
             ELSE [r EXCEPT !.result = s.auth]
    ELSE IF s.auth.status = "error"
    THEN [s EXCEPT !.result = s.auth]
    ELSE
    LET data == Head(s.ad_responses)
        t == [s EXCEPT !.ad_responses = Tail(@)]
    IN  IF data.kind = "exception"
        THEN LET u == [t EXCEPT !.log = Append(@, "ad_exception")]
             IN  IF RetryOnException(attempt) THEN submit_ad(u, attempt + 1)
                 ELSE [u EXCEPT !.result = ApiResult("error", NoCode, data.message, "")]
        ELSE IF data.code = 0
        THEN [t EXCEPT !.log = Append(@, "ad_success"),
                       !.result = ApiResult("success", NoCode, "", data.ad_id)]
        ELSE
        LET u == [t EXCEPT !.log = Append(@, IF data.code = Unauthorized THEN "ad_401" ELSE "ad_error")]
            failed == ApiResult("error", data.code, data.message, "")
        IN  IF data.code = Unauthorized /\ RetryOn401(attempt)
            THEN LET r == refresh_access_token(u)
                 IN  IF r.ok THEN submit_ad(r, attempt + 1)
                     ELSE [r EXCEPT !.result = failed]
            ELSE [u EXCEPT !.result = failed]

validate_music_id(s0, data) ==
    LET s == ensure_token(s0) IN
    IF s.auth.status = "error" THEN [s EXCEPT !.result = s.auth]
    ELSE LET t == [s EXCEPT !.log = Append(@, "music_query")]
         IN  IF data.kind = "exception"
             THEN [t EXCEPT !.result = ApiResult("error", NoCode, data.message, "")]
             ELSE IF data.code = 0
             THEN [t EXCEPT !.result = ApiResult("success", NoCode, "", "")]
             ELSE [t EXCEPT !.result = ApiResult("error", NoCode, data.message, "")]

\* The call that was made last: the credential and the clock it started
\* with, the answers it consumed, the requests it made and what it returned.
RealCall(op, rq, aq, s) ==
    [op |-> op, now |-> now,
     pre |-> [access_token |-> access_token, refresh_token |-> refresh_token, expires_at |-> expires_at],
     refresh_responses |-> rq, ad_responses |-> aq,
     auth |-> s.auth, log |-> s.log, result |-> s.result]

\* The call ran to its return and consumed every answer that was drawn.
Finished(s) ==
    /\ s.refresh_responses = <<>>
    /\ s.ad_responses = <<>>

Commit(op, rq, aq, s) ==
    /\ Finished(s)
    /\ access_token' = s.access_token
    /\ refresh_token' = s.refresh_token
    /\ expires_at' = s.expires_at
    /\ rl_call' = RealCall(op, rq, aq, s)
    /\ UNCHANGED now
    /\ UNCHANGED exceptReal

\* Answers beyond the drawn ones, so that Head is defined; a call that
\* reads one of them is not Finished.
RefreshPad == <<[code |-> 40100, data |-> EmptyDict]>>
AdPad == <<[kind |-> "exception", code |-> NoCode, message |-> "", ad_id |-> ""]>>

PadRefresh(rq) == rq \o RefreshPad \o RefreshPad \o RefreshPad \o RefreshPad

api_real_ensure_token(rq) ==
    LET s == ensure_token(CallState(PadRefresh(rq), <<>>))
    IN  /\ Len(s.refresh_responses) = 4
        /\ Commit("ensure_token", rq, <<>>, [s EXCEPT !.refresh_responses = <<>>, !.result = s.auth])

api_real_submit_ad(rq, aq) ==
    LET s == submit_ad(CallState(PadRefresh(rq), aq \o AdPad \o AdPad \o AdPad), 0)
    IN  /\ Len(s.refresh_responses) = 4
        /\ Len(s.ad_responses) = 3
        /\ Commit("submit_ad", rq, aq, [s EXCEPT !.refresh_responses = <<>>, !.ad_responses = <<>>])

api_real_validate_music_id(rq, data) ==
    LET s == validate_music_id(CallState(PadRefresh(rq), <<>>), data)
    IN  /\ Len(s.refresh_responses) = 4
        /\ Commit("validate_music_id", rq, <<>>, [s EXCEPT !.refresh_responses = <<>>])

\* Time passes between calls.
Tick ==
    /\ now + 100 \in Instants
    /\ now' = now + 100
    /\ UNCHANGED <<access_token, refresh_token, expires_at, rl_call>>
    /\ UNCHANGED exceptReal

\* RealTikTokAPI(): the fields after load_token.
InitReal ==
    /\ AgentIdle
    /\ LaterIdle
    /\ MockIdle
    /\ UiIdle
    /\ \E c \in StoredCredentials :
          /\ access_token = c.access_token
          /\ refresh_token = c.refresh_token
          /\ expires_at = c.expires_at
    /\ now = 0
    /\ rl_call = NoRealCall

NextReal ==
    \/ \E rq \in SeqsUpTo(RefreshResponses, 1) : api_real_ensure_token(rq)
    \/ \E rq \in SeqsUpTo(RefreshResponses, 3), aq \in SeqsUpTo(AdResponses, SubmitAttempts) :
          api_real_submit_ad(rq, aq)
    \/ \E rq \in SeqsUpTo(RefreshResponses, 1), data \in MusicResponses :
          api_real_validate_music_id(rq, data)
    \/ Tick

SpecReal == InitReal /\ [][NextReal]_vars

\* ------------------------------------------------------------------------
\* MockTikTokAPI (src/src/api_mock.py), AdAgent (src/src/agent.py) and
\* chat_interface (src/src/ui.py), with USE_REAL_API unset
\* ------------------------------------------------------------------------
MaxChats == 2

MockToken == <<"m", "o", "c", "k", "_", "t", "o", "k", "e", "n">>
MockUpPrefix == <<"m", "o", "c", "k", "_", "u", "p">>

Id123 == <<"1", "2", "3">>
Id456 == <<"4", "5", "6">>
Id999 == <<"9", "9", "9">>

\* "mock_up_" followed by secrets.token_hex(4): the ids the uploads draw.
MockUploadIds ==
    {MockUpPrefix \o <<"_">> \o h :
        h \in {<<"0", "0", "0", "0", "0", "0", "0", "1">>,
               <<"d", "e", "a", "d", "b", "e", "e", "f">>}}

\* self.music_db
music_db == [k \in {Id123, Id456} |-> k = Id123]

NotConnected == ApiResult("error", NoCode, "Not Connected", "")

api_mock_ensure_token(token) ==
    IF Falsy(token) THEN NotConnected ELSE AuthSuccess

api_mock_validate_music_id(music_id) ==
    IF StartsWith(music_id, MockUpPrefix) THEN AuthSuccess
    ELSE IF music_id \in DOMAIN music_db
    THEN IF music_db[music_id] THEN AuthSuccess
         ELSE ApiResult("error", NoCode, "Copyright Error", "")
    ELSE ApiResult("error", NoCode, "Not Found", "")

api_mock_submit_ad(geo) ==
    IF geo THEN ApiResult("error", 403, "Geo Restricted", "")
    ELSE ApiResult("success", NoCode, "", "mock_ad_id")

\* Values the language model proposes.
UiNames == {<<"a", "b">>, <<"a", "b", "c">>, <<>>}
UiObjectives == {Traffic, Conversions, <<"S", "a", "l", "e", "s">>}
Hi == <<"H", "i">>
Go == <<"G", "o">>

UiCreatives ==
    {EmptyDict,
     [music_id |-> Id123],
     [music_id |-> Id456],
     [music_id |-> None],
     [music_id |-> Id123, ad_text |-> Hi, cta |-> Go],
     [ad_text |-> Rep("x", 101), cta |-> <<>>]}

\* "updated_ad_state" objects the schema accepts: one key, or all three.
UiDeltas ==
    {EmptyDict}
    \cup {[campaign_name |-> n] : n \in UiNames}
    \cup {[objective |-> o] : o \in UiObjectives}
    \cup {[creative_details |-> c] : c \in UiCreatives}
    \cup {[campaign_name |-> n, objective |-> o, creative_details |-> c] :
            n \in {<<"a", "b">>, <<"a", "b", "c">>},
            o \in {Traffic, Conversions},
            c \in {EmptyDict, [music_id |-> Id123, ad_text |-> Hi, cta |-> Go]}}

UiParams == {EmptyDict, [music_id |-> Id123], [music_id |-> Id999]}

AgentData(msg, act, params, delta) ==
    [message_to_user |-> msg, action |-> act, action_params |-> params,
     updated_ad_state |-> delta]

\* JSON objects that pass validate(instance=data, schema=AGENT_OUTPUT_SCHEMA).
ValidData ==
    {AgentData("reply", act, EmptyDict, d) : act \in {"NONE", "SUBMIT_AD", "UPLOAD_MUSIC"}, d \in UiDeltas}
    \cup {AgentData("reply", "VALIDATE_MUSIC", p, d) : p \in UiParams, d \in UiDeltas}

\* What one generate_content call leads to: data that passes the schema,
\* data that raises ValidationError, or any other exception.
LlmData(d) == [kind |-> "data", data |-> d]
LlmInvalid == [kind |-> "invalid", data |-> AgentData("", "", EmptyDict, EmptyDict)]
LlmException == [kind |-> "exception", data |-> AgentData("", "", EmptyDict, EmptyDict)]

\* A response text that json.loads rejects.
LlmMalformed == [kind |-> "malformed", data |-> AgentData("", "", EmptyDict, EmptyDict)]

\* The generate_content results one process_message call consumes: D is
\* drawn from on the first call, R on the call after a ValidationError.
LlmScripts(D, R) ==
    {<<LlmData(d)>> : d \in D}
    \cup {<<LlmInvalid, LlmData(d)>> : d \in R}
    \cup {<<LlmException>>, <<LlmInvalid, LlmInvalid>>, <<LlmInvalid, LlmException>>}

\* Data of the retried calls and of the calls whose action is not looked at.
RetryData ==
    {AgentData("reply", "NONE", EmptyDict, EmptyDict),
     AgentData("reply", "SUBMIT_AD", EmptyDict, [campaign_name |-> <<"a", "b", "c">>]),
     AgentData("reply", "NONE", EmptyDict, [creative_details |-> EmptyDict])}

\* The dicts returned by the except clauses; they have no other keys.
ValidationFailed == AgentData("System Error: Output Validation Failed.", "NONE", EmptyDict, EmptyDict)
ModelError == AgentData("System Error: exception text", "NONE", EmptyDict, EmptyDict)

\* "for k, v in new_state.items(): self.collected_data[k] = v"
MergeAll(cd, new_state) ==
    [k \in DOMAIN cd \cup DOMAIN new_state |->
        IF k \in DOMAIN new_state THEN new_state[k] ELSE cd[k]]

\* number of generate_content calls made when process_message returns:
\* the retry is one recursive call with retry=True
ModelCalls(retry) == IF retry THEN 2 ELSE 1

\* except ValidationError: if not retry: return self.process_message(...).
\* A text that json.loads rejects raises JSONDecodeError, which is not a
\* ValidationError and goes to "except Exception", as a failed model call
\* does.
RetryOnFailure(kind, retry) == kind = "invalid" /\ ~retry

\* AdAgent.process_message: the returned dict and the fields afterwards.
RECURSIVE process_message(_, _, _, _)
process_message(cd, hist, script, retry) ==
    LET res == Head(script) IN
    IF res.kind = "data"
    THEN [resp |-> res.data,
          collected_data |-> MergeAll(cd, res.data.updated_ad_state),
          history |-> hist + 1, calls |-> ModelCalls(retry)]
    ELSE IF RetryOnFailure(res.kind, retry)
    THEN process_message(cd, hist, Tail(script), TRUE)
    ELSE [resp |-> IF res.kind = "invalid" THEN ValidationFailed ELSE ModelError,
          collected_data |-> cd, history |-> hist, calls |-> ModelCalls(retry)]

\* state.get("creative_details", {}).get("music_id")
StateMusic(state) ==
    IF "creative_details" \in DOMAIN state
    THEN Get(state["creative_details"], "music_id")
    ELSE None

UiTurn(act, validated, mid, v_result, submitted, payload, s_result) ==
    [action |-> act, validated |-> validated, music_id |-> mid,
     token |-> mock_access_token, v_result |-> v_result,
     submitted |-> submitted, payload |-> payload, s_result |-> s_result]

\* Payload of the submit_ad call.
UiPayload(state) ==
    [campaign |-> [name |-> Get(state, "campaign_name"), objective |-> Get(state, "objective")],
     creative |-> IF "creative_details" \in DOMAIN state THEN state["creative_details"] ELSE EmptyDict]

\* The second process_message call of a turn, made with a system message.
FollowUp(r, turn) ==
    \E script \in LlmScripts(RetryData, RetryData) :
        LET r2 == process_message(r.collected_data, r.history, script, FALSE) IN
        /\ collected_data' = r2.collected_data
        /\ history' = r2.history
        /\ ui_turn' = turn

NoFollowUp(r, turn) ==
    /\ collected_data' = r.collected_data
    /\ history' = r.history
    /\ ui_turn' = turn

chat_interface(user_input, script) ==
    /\ chat < MaxChats
    /\ IF user_input = ""
       THEN UNCHANGED <<collected_data, history, chat, ui_turn>>
       ELSE
       LET r == process_message(collected_data, history, script, FALSE)
           act == r.resp.action
           state == r.collected_data
       IN
       /\ chat' = chat + 1
       /\ CASE act = "VALIDATE_MUSIC" ->
                 LET mid == Get(r.resp.action_params, "music_id") IN
                 IF Falsy(mid)
                 THEN NoFollowUp(r, UiTurn(act, FALSE, None, NoResult, FALSE, NoPayload, NoResult))
                 ELSE LET v == api_mock_validate_music_id(mid)
                          turn == UiTurn(act, TRUE, mid, v, FALSE, NoPayload, NoResult)
                      IN  IF v.status = "error" THEN FollowUp(r, turn)
                          ELSE NoFollowUp(r, turn)
            [] act = "UPLOAD_MUSIC" ->
                 LET cd == IF "creative_details" \in DOMAIN state THEN state["creative_details"] ELSE EmptyDict
                 IN  \E upload_id \in MockUploadIds :
                     /\ collected_data' = Put(state, "creative_details", Put(cd, "music_id", upload_id))
                     /\ history' = r.history
                     /\ ui_turn' = UiTurn(act, FALSE, upload_id, NoResult, FALSE, NoPayload, NoResult)
            [] act = "SUBMIT_AD" ->
                 LET mid == StateMusic(state)
                     needs_music == Get(state, "objective") = Conversions /\ Falsy(mid)
                     v == IF Falsy(mid) THEN NoResult ELSE api_mock_validate_music_id(mid)
                     errors == needs_music \/ v.status = "error"
                     payload == UiPayload(state)
                     turn == UiTurn(act, ~Falsy(mid), mid, v, FALSE, NoPayload, NoResult)
                 IN  IF errors THEN FollowUp(r, turn)
                     ELSE IF Falsy(payload.campaign.name) \/ Falsy(payload.campaign.objective)
                     THEN FollowUp(r, turn)
                     ELSE LET s == api_mock_submit_ad(mock_failures)
                              sent == UiTurn(act, ~Falsy(mid), mid, v, TRUE, payload, s)
                          IN  IF s.status = "error" THEN FollowUp(r, sent)
                              ELSE NoFollowUp(r, sent)
            [] OTHER ->
                 NoFollowUp(r, UiTurn(act, FALSE, None, NoResult, FALSE, NoPayload, NoResult))
    /\ UNCHANGED <<mock_access_token, mock_failures>>
    /\ UNCHANGED exceptUi

\* GET /callback of src/src/server.py, which calls get_access_token(code).
callback(code) ==
    /\ IF Falsy(code) THEN UNCHANGED mock_access_token
       ELSE mock_access_token' = MockToken
    /\ UNCHANGED <<collected_data, history, chat, mock_failures, ui_turn>>
    /\ UNCHANGED exceptUi

set_geo(x) ==
    /\ mock_failures' = x
    /\ UNCHANGED <<collected_data, history, chat, mock_access_token, ui_turn>>
    /\ UNCHANGED exceptUi

InitUi ==
    /\ AgentIdle
    /\ LaterIdle
    /\ MockIdle
    /\ RealIdle
    /\ UiIdle

NextUi ==
    \/ \E user_input \in {"", "text"}, script \in LlmScripts(ValidData, RetryData) :
          /\ user_input = "" => script = <<LlmException>>
          /\ chat_interface(user_input, script)
    \/ \E code \in {None, <<"m", "o", "c", "k", "_", "c", "o", "d", "e">>} : callback(code)
    \/ \E x \in BOOLEAN : set_geo(x)

SpecUi == InitUi /\ [][NextUi]_vars

\* ------------------------------------------------------------------------
\* AdAgent.process_message of src/src/agent.py called on its own
\* ------------------------------------------------------------------------
MaxAgentCalls == 2

\* collected_data at construction, and after chat_interface stored the id
\* of an uploaded file in it.
AgentStarts ==
    {EmptyDict} \cup {[creative_details |-> [music_id |-> u]] : u \in MockUploadIds}

AgentResults ==
    {LlmData(AgentData("reply", "NONE", EmptyDict, d)) : d \in UiDeltas}
    \cup {LlmData(d) : d \in RetryData}
    \cup {LlmInvalid, LlmMalformed, LlmException}

\* The result of the first generate_content call and of the second one,
\* which is made only on a retry.
AgentScripts ==
    {<<first, second>> : first \in AgentResults,
                         second \in {LlmData(d) : d \in RetryData} \cup {LlmInvalid, LlmMalformed, LlmException}}

AgentCall(pre, script, r) ==
    [called |-> TRUE, pre |-> pre, first |-> script[1].kind,
     second |-> IF r.calls = 2 THEN script[2].kind ELSE "none",
     delta |-> IF r.calls = 2 THEN script[2].data.updated_ad_state
               ELSE script[1].data.updated_ad_state,
     calls |-> r.calls, merged |-> r.history # history,
     action |-> r.resp.action, message |-> r.resp.message_to_user]

agent_process_message(script) ==
    /\ history < MaxAgentCalls
    /\ LET r == process_message(collected_data, history, script, FALSE) IN
       /\ r.calls = 1 => script[2] = LlmException
       /\ collected_data' = r.collected_data
       /\ history' = r.history
       /\ pm_call' = AgentCall(collected_data, script, r)
    /\ UNCHANGED <<chat, mock_access_token, mock_failures, ui_turn>>
    /\ UNCHANGED <<agentVars, mockVars, realVars, turnVars, oauthVars, raceVars, flaskVars>>

InitAgent ==
    /\ AgentIdle
    /\ MockIdle
    /\ RealIdle
    /\ chat = 0
    /\ mock_access_token = None
    /\ mock_failures = FALSE
    /\ ui_turn = NoUiTurn
    /\ history = 0
    /\ collected_data \in AgentStarts
    /\ LaterIdle

NextAgent == \E script \in AgentScripts : agent_process_message(script)

SpecAgent == InitAgent /\ [][NextAgent]_vars

\* ------------------------------------------------------------------------
\* The /callback route of src/src/server.py in live mode (USE_REAL_API),
\* with get_auth_url, verify_state and get_access_token of RealTikTokAPI
\* ------------------------------------------------------------------------
\* secrets.token_hex(8) values, and a value that is never drawn.
State1 == <<"0", "a", "1", "b">>
State2 == <<"f", "f", "0", "2">>
ForeignState == <<"e", "v", "i", "l">>
IssuableStates == {State1, State2}

\* oauth_state.json after open(..., "w") truncated it and the dump failed.
Truncated == <<"Truncated">>

Code1 == <<"c", "o", "d", "e", "1">>
AT3 == <<"a", "t", "3">>
RT3 == <<"r", "t", "3">>

CallbackCodes == {None, <<>>, Code1}
CallbackStates == {None, <<>>, ForeignState} \cup IssuableStates

RequiredScopes == {"ads_management", "creative_management"}

\* What the token endpoint answers to get_access_token; "raise" is a
\* request or a parse that raised.
ExchangeResponses ==
    {[raised |-> FALSE, code |-> 0,
      data |-> [access_token |-> AT3, refresh_token |-> RT3,
                scope |-> RequiredScopes, expires_in |-> 7200]],
     [raised |-> FALSE, code |-> 0,
      data |-> [access_token |-> AT3, scope |-> RequiredScopes \cup {"user.info"}]],
     [raised |-> FALSE, code |-> 0,
      data |-> [access_token |-> AT3, refresh_token |-> RT3,
                scope |-> {"ads_management"}, expires_in |-> 7200]],
     [raised |-> FALSE, code |-> 40002, data |-> EmptyDict],
     [raised |-> TRUE, code |-> NoCode, data |-> EmptyDict]}

\* _save_state: what oauth_state.json holds afterwards.  written is
\* "written", or "failed" (open raised: the file is left as it was), or
\* "truncated" (the dump raised after open emptied the file); the except
\* clause swallows both.
_save_state(file, state, written) ==
    CASE written = "written" -> state
      [] written = "failed" -> file
      [] written = "truncated" -> Truncated

\* verify_state: a falsy received state is refused; without a readable
\* file the answer is False; otherwise the saved state is compared.
verify_state_lenient(file, received_state) ==
    file = None \/ file = received_state
verify_state(file, received_state) ==
    IF Falsy(received_state) THEN FALSE
    ELSE IF file = None \/ file = Truncated THEN FALSE
    ELSE file = received_state

Credentials == [access_token |-> access_token, refresh_token |-> refresh_token,
                expires_at |-> expires_at]

\* get_access_token: the returned status and the fields afterwards.
get_access_token(resp) ==
    LET s == CallState(<<>>, <<>>) IN
    IF resp.raised
    THEN [status |-> "error", s |-> s]
    ELSE IF resp.code = 0
    THEN IF ~(RequiredScopes \subseteq resp.data.scope)
         THEN [status |-> "error", s |-> s]
         ELSE [status |-> "success",
               s |-> save_token(s, resp.data.access_token,
                                Get(resp.data, "refresh_token"), ExpiresIn(resp.data))]
    ELSE [status |-> "error", s |-> s]

get_auth_url(state, written) ==
    /\ state_file' = _save_state(state_file, state, written)
    /\ issued' = issued \cup {state}
    /\ last_issued' = state
    /\ UNCHANGED <<accepted, cb_call>>
    /\ UNCHANGED <<agentVars, mockVars, realVars, uiVars, adAgentVars, turnVars, raceVars, flaskVars>>

CallbackLog(code, state, verified, exchanged, page, resp) ==
    [called |-> TRUE, code |-> code, state |-> state, verified |-> verified,
     exchanged |-> exchanged, page |-> page, response |-> resp,
     pre |-> Credentials, replay |-> state \in accepted]

server_callback(code, state, resp) ==
    IF Falsy(code)
    THEN /\ resp = NoExchange
         /\ cb_call' = CallbackLog(code, state, FALSE, FALSE, "no_code", resp)
         /\ UNCHANGED <<state_file, issued, last_issued, accepted>>
         /\ UNCHANGED <<agentVars, mockVars, realVars, uiVars, adAgentVars, turnVars, raceVars, flaskVars>>
    ELSE IF ~verify_state(state_file, state)
    THEN /\ resp = NoExchange
         /\ cb_call' = CallbackLog(code, state, FALSE, FALSE, "invalid_state", resp)
         /\ UNCHANGED <<state_file, issued, last_issued, accepted>>
         /\ UNCHANGED <<agentVars, mockVars, realVars, uiVars, adAgentVars, turnVars, raceVars, flaskVars>>
    ELSE LET res == get_access_token(resp) IN
         /\ resp \in ExchangeResponses
         /\ access_token' = res.s.access_token
         /\ refresh_token' = res.s.refresh_token
         /\ expires_at' = res.s.expires_at
         /\ accepted' = accepted \cup {state}
         /\ cb_call' = CallbackLog(code, state, TRUE, TRUE,
                                   IF res.status = "success" THEN "connected" ELSE "error",
                                   resp)
         /\ UNCHANGED <<state_file, issued, last_issued, now, rl_call>>
         /\ UNCHANGED <<agentVars, mockVars, uiVars, adAgentVars, turnVars, raceVars, flaskVars>>

\* RealTikTokAPI() in a directory without oauth_state.json, or with the
\* file an earlier run of get_auth_url left there.
InitOAuth ==
    /\ AgentIdle
    /\ MockIdle
    /\ UiIdle
    /\ AdAgentIdle
    /\ TurnIdle
    /\ RaceIdle
    /\ FlaskIdle
    /\ \E c \in StoredCredentials :
          /\ access_token = c.access_token
          /\ refresh_token = c.refresh_token
          /\ expires_at = c.expires_at
    /\ now = 0
    /\ rl_call = NoRealCall
    /\ state_file \in {None, State1}
    /\ issued = IF state_file = None THEN {} ELSE {state_file}
    /\ last_issued = state_file
    /\ accepted = {}
    /\ cb_call = NoCallback

NextOAuth ==
    \/ \E state \in IssuableStates, written \in {"written", "failed", "truncated"} :
          get_auth_url(state, written)
    \/ \E code \in CallbackCodes, state \in CallbackStates,
          resp \in ExchangeResponses \cup {NoExchange} :
             server_callback(code, state, resp)

SpecOAuth == InitOAuth /\ [][NextOAuth]_vars

\* ------------------------------------------------------------------------
\* The two threads on the api_client of src/src/instances.py: the callback
\* thread started by start_server_thread runs get_access_token, whose
\* save_token assigns the three credential fields one statement after the
\* other; the conversation thread runs ensure_token, which reads
\* access_token and then expires_at.  No lock is taken by either.
\* ------------------------------------------------------------------------
MaxSaves == 2

\* Credentials the token endpoint grants to the callback thread.
ListenerGrants ==
    {[access_token |-> AT3, refresh_token |-> RT3, expires_in |-> 7200],
     [access_token |-> AT2, refresh_token |-> RT2, expires_in |-> 200]}

Assigned(w, fields, thread) ==
    [f \in DOMAIN w |-> IF f \in fields THEN thread ELSE w[f]]

\* save_token, first statement: self.access_token = access_token
save_token_access(grant) ==
    /\ lt.pc = "idle"
    /\ n_saves < MaxSaves
    /\ n_saves' = n_saves + 1
    /\ access_token' = grant.access_token
    /\ writer' = Assigned(writer, {"access_token"}, "listener")
    /\ lt' = [pc |-> "refresh_token", grant |-> grant]
    /\ UNCHANGED <<refresh_token, expires_at, now, rl_call, tt, et_call, saved>>
    /\ UNCHANGED <<agentVars, mockVars, uiVars, adAgentVars, turnVars, oauthVars, flaskVars>>

\* second statement: self.refresh_token = refresh_token
save_token_refresh ==
    /\ lt.pc = "refresh_token"
    /\ refresh_token' = lt.grant.refresh_token
    /\ writer' = Assigned(writer, {"refresh_token"}, "listener")
    /\ lt' = [lt EXCEPT !.pc = "expires_at"]
    /\ UNCHANGED <<access_token, expires_at, now, rl_call, tt, et_call, saved, n_saves>>
    /\ UNCHANGED <<agentVars, mockVars, uiVars, adAgentVars, turnVars, oauthVars, flaskVars>>

\* third statement: self.expires_at = time.time() + expires_in; the token
\* file is written from the fields afterwards.
save_token_expiry ==
    /\ lt.pc = "expires_at"
    /\ expires_at' = now + lt.grant.expires_in
    /\ writer' = Assigned(writer, {"expires_at"}, "listener")
    /\ saved' = saved \cup {<<lt.grant.access_token, now + lt.grant.expires_in>>}
    /\ lt' = [pc |-> "idle", grant |-> NoGrant]
    /\ UNCHANGED <<access_token, refresh_token, now, rl_call, tt, et_call, n_saves>>
    /\ UNCHANGED <<agentVars, mockVars, uiVars, adAgentVars, turnVars, oauthVars, flaskVars>>

\* ensure_token, left operand of "and": self.access_token is loaded and
\* tested; a falsy value skips the comparison.
ensure_token_load ==
    /\ tt.pc = "idle"
    /\ tt' = [pc |-> IF Falsy(access_token) THEN "refresh" ELSE "compare",
              access_token |-> access_token]
    /\ UNCHANGED <<access_token, refresh_token, expires_at, now, rl_call,
                   lt, et_call, saved, writer, n_saves>>
    /\ UNCHANGED <<agentVars, mockVars, uiVars, adAgentVars, turnVars, oauthVars, flaskVars>>

\* right operand: time.time() < (self.expires_at - 300), with expires_at
\* as it is now; a true test returns success.
ensure_token_compare ==
    /\ tt.pc = "compare"
    /\ LET valid == TokenValid([access_token |-> tt.access_token,
                                expires_at |-> expires_at, now |-> now])
       IN  /\ et_call' = [made |-> TRUE, access_token |-> tt.access_token,
                          expires_at |-> expires_at, valid |-> valid]
           /\ tt' = [tt EXCEPT !.pc = IF valid THEN "idle" ELSE "refresh"]
    /\ UNCHANGED <<access_token, refresh_token, expires_at, now, rl_call,
                   lt, saved, writer, n_saves>>
    /\ UNCHANGED <<agentVars, mockVars, uiVars, adAgentVars, turnVars, oauthVars, flaskVars>>

\* the rest of ensure_token: refresh_access_token with the answer data of
\* the refresh endpoint, taken as one step.
ensure_token_refresh(data) ==
    /\ tt.pc = "refresh"
    /\ Falsy(refresh_token) => <<data>> = RefreshPad
    /\ LET r == refresh_access_token(CallState(<<data>>, <<>>)) IN
       /\ access_token' = r.access_token
       /\ refresh_token' = r.refresh_token
       /\ expires_at' = r.expires_at
       /\ writer' = IF r.ok THEN Assigned(writer, DOMAIN writer, "conversation") ELSE writer
       /\ saved' = IF r.ok THEN saved \cup {<<r.access_token, r.expires_at>>} ELSE saved
    /\ tt' = [tt EXCEPT !.pc = "idle"]
    /\ UNCHANGED <<now, rl_call, lt, et_call, n_saves>>
    /\ UNCHANGED <<agentVars, mockVars, uiVars, adAgentVars, turnVars, oauthVars, flaskVars>>

\* RealTikTokAPI(): the fields after load_token, both threads idle.
InitRace ==
    /\ AgentIdle
    /\ MockIdle
    /\ UiIdle
    /\ AdAgentIdle
    /\ TurnIdle
    /\ OAuthIdle
    /\ FlaskIdle
    /\ \E c \in StoredCredentials :
          /\ access_token = c.access_token
          /\ refresh_token = c.refresh_token
          /\ expires_at = c.expires_at
    /\ now = 0
    /\ rl_call = NoRealCall
    /\ lt = [pc |-> "idle", grant |-> NoGrant]
    /\ tt = [pc |-> "idle", access_token |-> None]
    /\ et_call = NoTest
    /\ saved = {<<access_token, expires_at>>}
    /\ writer = [f \in {"access_token", "refresh_token", "expires_at"} |-> "constructor"]
    /\ n_saves = 0

NextRace ==
    \/ \E grant \in ListenerGrants : save_token_access(grant)
    \/ save_token_refresh
    \/ save_token_expiry
    \/ ensure_token_load
    \/ ensure_token_compare
    \/ \E data \in RefreshResponses : ensure_token_refresh(data)
    \/ Tick

SpecRace == InitRace /\ [][NextRace]_vars

\* ------------------------------------------------------------------------
\* The standalone OAuth server of src/oauth_server.py: /authorize and
\* /callback, with the cookie session of each browser
\* ------------------------------------------------------------------------
\* secrets.token_urlsafe(32) values.
FlaskState1 == <<"u", "r", "l", "1">>
FlaskState2 == <<"u", "r", "l", "2">>
FlaskStates == {FlaskState1, FlaskState2}

\* request.args.get("state") and request.args.get("auth_code")
FlaskRequestStates == {None, <<>>, ForeignState} \cup FlaskStates
FlaskAuthCodes == {None, <<>>, Code1}

\* What the token endpoint answers; "raised" is a request that raised.
FlaskResponses ==
    {[raised |-> FALSE, code |-> 0,
      data |-> [access_token |-> AT3, refresh_token |-> RT3, expires_in |-> 7200]],
     [raised |-> FALSE, code |-> 0, data |-> [access_token |-> AT2]],
     [raised |-> FALSE, code |-> 40003, data |-> EmptyDict],
     [raised |-> TRUE, code |-> NoCode, data |-> EmptyDict]}

\* "if state != session.get('oauth_state')": both sides may be None.
StateMismatch(state, sid) == state # session[sid]

authorize(sid, state) ==
    /\ session' = [session EXCEPT ![sid] = state]
    /\ session_issued' = [session_issued EXCEPT ![sid] = @ \cup {state}]
    /\ UNCHANGED <<ACCESS_TOKEN, REFRESH_TOKEN, TOKEN_EXPIRY, fl_call>>
    /\ UNCHANGED <<agentVars, mockVars, realVars, uiVars, adAgentVars, turnVars,
                   oauthVars, raceVars>>

FlaskLog(sid, state, auth_code, exchanged, status) ==
    [called |-> TRUE, sid |-> sid, state |-> state, auth_code |-> auth_code,
     exchanged |-> exchanged, status |-> status, pre |-> ACCESS_TOKEN,
     issued |-> session_issued[sid]]

flask_callback(sid, state, auth_code, resp) ==
    /\ IF StateMismatch(state, sid)
       THEN /\ resp = NoExchange
            /\ fl_call' = FlaskLog(sid, state, auth_code, FALSE, 400)
            /\ UNCHANGED <<ACCESS_TOKEN, REFRESH_TOKEN, TOKEN_EXPIRY>>
       ELSE IF Falsy(auth_code)
       THEN /\ resp = NoExchange
            /\ fl_call' = FlaskLog(sid, state, auth_code, FALSE, 400)
            /\ UNCHANGED <<ACCESS_TOKEN, REFRESH_TOKEN, TOKEN_EXPIRY>>
       ELSE /\ resp \in FlaskResponses
            /\ IF resp.raised
               THEN /\ fl_call' = FlaskLog(sid, state, auth_code, TRUE, 500)
                    /\ UNCHANGED <<ACCESS_TOKEN, REFRESH_TOKEN, TOKEN_EXPIRY>>
               ELSE IF resp.code = 0
               THEN /\ ACCESS_TOKEN' = resp.data.access_token
                    /\ REFRESH_TOKEN' = Get(resp.data, "refresh_token")
                    /\ TOKEN_EXPIRY' = ExpiresIn(resp.data)
                    /\ fl_call' = FlaskLog(sid, state, auth_code, TRUE, 200)
               ELSE /\ fl_call' = FlaskLog(sid, state, auth_code, TRUE, 400)
                    /\ UNCHANGED <<ACCESS_TOKEN, REFRESH_TOKEN, TOKEN_EXPIRY>>
    /\ UNCHANGED <<session, session_issued>>
    /\ UNCHANGED <<agentVars, mockVars, realVars, uiVars, adAgentVars, turnVars,
                   oauthVars, raceVars>>

InitFlask ==
    /\ AgentIdle
    /\ MockIdle
    /\ RealIdle
    /\ UiIdle
    /\ LaterIdle

NextFlask ==
    \/ \E sid \in SessionIds, state \in FlaskStates : authorize(sid, state)
    \/ \E sid \in SessionIds, state \in FlaskRequestStates, auth_code \in FlaskAuthCodes,
          resp \in FlaskResponses \cup {NoExchange} :
             flask_callback(sid, state, auth_code, resp)

SpecFlask == InitFlask /\ [][NextFlask]_vars

\* ------------------------------------------------------------------------
\* Properties
\* ------------------------------------------------------------------------
Constructed == model # NotConstructed

HasStr(d, f) == f \in DOMAIN d /\ d[f] # None

MusicViolation(errors) == \E e \in errors : e.loc = "music_id"

\* The four fields other than music_id hold values every rule accepts.
OtherFieldsValid(d) ==
    /\ HasStr(d, "campaign_name") /\ Len(Strip(d["campaign_name"])) >= 3
    /\ HasStr(d, "ad_text") /\ Len(d["ad_text"]) <= 100
    /\ HasStr(d, "cta") /\ Len(d["cta"]) > 0

\* The five rules, on a payload (a dict with all five keys).
SatisfiesRules(d) ==
    /\ d["campaign_name"] # None /\ Len(Strip(d["campaign_name"])) >= 3
    /\ d["objective"] \in {Traffic, Conversions}
    /\ d["ad_text"] # None /\ Len(d["ad_text"]) <= 100
    /\ d["cta"] # None /\ Len(d["cta"]) > 0
    /\ d["objective"] = Conversions => d["music_id"] # None
    /\ d["music_id"] # None => Len(Strip(d["music_id"])) > 0

\* C1: a submit turn of a conversation whose configuration has objective
\* Conversions and no music_id answers with a validation failure that names
\* the music violation, and does not call create_ad.
C1_ConversionsWithoutMusicIsBlocked ==
    (/\ action = "submit"
     /\ Get(ad_config, "objective") = Conversions
     /\ "music_id" \notin DOMAIN ad_config)
    => /\ reply.kind = "validation_failed"
       /\ MusicViolation(reply.errors)
       /\ created = NoCall

\* C2: create_ad is only ever called with a configuration that satisfies
\* all five rules.
C2_CreateAdOnlyWithValidConfig ==
    created.called => SatisfiesRules(created.dict)

\* C3: with objective Conversions and the other fields valid, validation
\* reports a music violation exactly when music_id is not supplied, null,
\* empty or blank.
C3_ConversionsMusicViolationIff ==
    (/\ Constructed
     /\ OtherFieldsValid(kwargs)
     /\ HasStr(kwargs, "objective") /\ kwargs["objective"] = Conversions)
    => (MusicViolation(model.errors)
          <=> \/ ~HasStr(kwargs, "music_id")
              \/ Len(Strip(kwargs["music_id"])) = 0)

\* C4: with objective Traffic and the other fields valid, a music_id that is
\* not supplied or null gives no violation and the configuration is accepted
\* with music_id = None.
C4_TrafficWithoutMusicAccepted ==
    (/\ Constructed
     /\ OtherFieldsValid(kwargs)
     /\ HasStr(kwargs, "objective") /\ kwargs["objective"] = Traffic
     /\ ~HasStr(kwargs, "music_id"))
    => /\ model.valid
       /\ model.errors = {}
       /\ model.dict.music_id = None

C4_Witness ==
    /\ Constructed
    /\ OtherFieldsValid(kwargs)
    /\ HasStr(kwargs, "objective") /\ kwargs["objective"] = Traffic
    /\ "music_id" \in DOMAIN kwargs /\ kwargs["music_id"] = None
    /\ model.valid

\* C5: the merge is field-wise last-write-wins with null as a no-op: a field
\* the state leaves out or gives as null keeps its presence and its value, a
\* field given a non-null value holds that value, however often the state is
\* merged.
C5_MergeLastWriteWinsNullNoOp ==
    m_n >= 1 =>
        \A f \in FieldNames :
            IF f \in DOMAIN m_delta /\ m_delta[f] # None
            THEN f \in DOMAIN m_out /\ m_out[f] = m_delta[f]
            ELSE /\ f \in DOMAIN m_out <=> f \in DOMAIN m_cfg
                 /\ f \in DOMAIN m_cfg => m_out[f] = m_cfg[f]

C5_Witness ==
    /\ m_n >= 2
    /\ "music_id" \in DOMAIN m_cfg /\ m_cfg["music_id"] = <<"1", "2", "3", "4", "5">>
    /\ "music_id" \in DOMAIN m_delta /\ m_delta["music_id"] = None
    /\ m_out["music_id"] = <<"1", "2", "3", "4", "5">>

\* C6: an ad_text of length 100 is accepted; one of length 101 is rejected
\* with the rule's own message, which names the current length 101.
C6_AdTextBoundaryAndMessage ==
    (Constructed /\ HasStr(kwargs, "ad_text"))
    => /\ Len(kwargs["ad_text"]) = 100 => ~\E e \in model.errors : e.loc = "ad_text"
       /\ Len(kwargs["ad_text"]) = 101 =>
             \E e \in model.errors :
                /\ e.loc = "ad_text"
                /\ e.msg = "Ad text cannot exceed 100 characters (current: N)"
                /\ e.current = 101

\* C7: on submit, a campaign name whose trimmed length is below 3 is
\* rejected and nothing is created; a name whose trimmed length is at least
\* 3 is not objected to, and the configuration passed to create_ad holds the
\* trimmed name.
C7_CampaignNameTrimmed ==
    (action = "submit" /\ "campaign_name" \in DOMAIN ad_config)
    => LET raw == ad_config["campaign_name"]
           nameErrors == {e \in reply.errors : e.loc = "campaign_name"}
       IN  /\ Len(Strip(raw)) < 3 => (nameErrors # {} /\ ~created.called)
           /\ Len(Strip(raw)) >= 3 => nameErrors = {}
           /\ created.called => created.dict.campaign_name = Strip(raw)

C7_Witness ==
    /\ action = "submit"
    /\ created.called
    /\ "campaign_name" \in DOMAIN ad_config
    /\ Len(ad_config["campaign_name"]) > Len(created.dict.campaign_name)
    /\ created.dict.campaign_name = <<"a", "a", "a">>

\* C8: a configuration whose cta is absent or the empty string is rejected,
\* whatever the other fields are.
C8_AbsentOrEmptyCtaRejected ==
    (Constructed /\ (~HasStr(kwargs, "cta") \/ Len(kwargs["cta"]) = 0))
    => ~model.valid

\* C9: the five known codes are interpreted by the fixed table; of them only
\* INVALID_TOKEN is retryable.
C9_ErrorTable ==
    LET e == reply.error IN
    /\ reply.code = "INVALID_TOKEN" => (e.retryable /\ e.severity = "medium")
    /\ reply.code = "INSUFFICIENT_PERMISSIONS" => (~e.retryable /\ e.severity = "high")
    /\ reply.code = "MUSIC_NOT_FOUND" => (~e.retryable /\ e.severity = "low")
    /\ reply.code = "INVALID_MUSIC_ID" => (~e.retryable /\ e.severity = "medium")
    /\ reply.code = "GEO_RESTRICTED" => (~e.retryable /\ e.severity = "high")

C9_Witness ==
    /\ reply.kind = "api_error"
    /\ reply.code = "GEO_RESTRICTED"
    /\ ~reply.error.retryable

\* C10: a code outside the table is interpreted without raising, as the
\* default row: retryable, severity medium, and an explanation that contains
\* the code.
C10_UnknownCodeDefaultRow ==
    (reply.code # "" /\ reply.code \notin
        {"INVALID_TOKEN", "INSUFFICIENT_PERMISSIONS", "MUSIC_NOT_FOUND",
         "INVALID_MUSIC_ID", "GEO_RESTRICTED"})
    => /\ reply.error.retryable
       /\ reply.error.severity = "medium"
       /\ \E i \in 1..Len(reply.error.explanation) : reply.error.explanation[i] = reply.code

C10_Witness ==
    /\ reply.kind = "submission_failed"
    /\ reply.code = "UNKNOWN_ERROR_12345"
    /\ reply.retry_offer

\* C11: with failure simulation disabled, every music id that a successful
\* upload_music has returned is accepted by every later validate_music_id
\* of the same MockTikTokAPI.
C11_UploadedIdsStayValid ==
    (/\ ~simulate_failures
     /\ mk_call.op = "validate_music_id"
     /\ mk_call.music_id \in mk_returned)
    => mk_call.result.success

C11_Witness ==
    /\ ~simulate_failures
    /\ Cardinality(mk_returned) = 2
    /\ mk_call.op = "validate_music_id"
    /\ mk_call.music_id \in mk_returned
    /\ mk_call.result.success
    /\ mk_call.result.music_id = mk_call.music_id

\* C12: with simulate_failures set and failure_rate 1.0, every
\* validate_music_id call, whatever the music id, fails with error code
\* INVALID_TOKEN, which ErrorInterpreter classifies as retryable.
C12_CertainFailureIsInvalidToken ==
    (/\ simulate_failures
     /\ failure_rate = 100
     /\ mk_call.op = "validate_music_id")
    => /\ ~mk_call.result.success
       /\ mk_call.result.error_code = "INVALID_TOKEN"
       /\ interpret(mk_call.result.error_code).retryable

C12_Witness ==
    /\ simulate_failures
    /\ failure_rate = 100
    /\ mk_call.op = "validate_music_id"
    /\ mk_call.music_id = Catalogue[1]
    /\ mk_call.rand = 99
    /\ mk_call.result.error_code = "INVALID_TOKEN"

\* C13: with failure simulation disabled, validate_music_id of a music id
\* that is not in the catalogue, was not uploaded and does not start with
\* "UPLOAD_" fails with error code MUSIC_NOT_FOUND and a message that
\* contains the id; ErrorInterpreter classifies the code as not retryable.
C13_UnknownIdIsMusicNotFound ==
    (/\ ~simulate_failures
     /\ mk_call.op = "validate_music_id"
     /\ mk_call.music_id \notin Range(valid_music_ids)
     /\ mk_call.music_id \notin DOMAIN uploaded_music
     /\ ~StartsWith(mk_call.music_id, UploadPrefix))
    => /\ ~mk_call.result.success
       /\ mk_call.result.error_code = "MUSIC_NOT_FOUND"
       /\ mk_call.result.message[2] = mk_call.music_id
       /\ ~interpret(mk_call.result.error_code).retryable

C13_Witness ==
    /\ ~simulate_failures
    /\ uploaded_music # EmptyDict
    /\ mk_call.op = "validate_music_id"
    /\ mk_call.music_id = <<"9", "9", "9", "9", "9">>
    /\ mk_call.result.error_code = "MUSIC_NOT_FOUND"
    /\ mk_call.result.message[2] = <<"9", "9", "9", "9", "9">>

\* Requests and refresh attempts of the last RealTikTokAPI call.
RefreshEvents == {"refresh_ok", "refresh_failed", "refresh_without_token"}
RefreshRequests == {"refresh_ok", "refresh_failed"}
AdEvents == {"ad_success", "ad_401", "ad_error", "ad_exception"}

CountIn(log, S) == Cardinality({i \in DOMAIN log : log[i] \in S})

AdLog == SelectSeq(rl_call.log, LAMBDA e : e \in AdEvents)

\* The credential the call started with passes ensure_token's test.
PreValid ==
    /\ ~Falsy(rl_call.pre.access_token)
    /\ rl_call.now < rl_call.pre.expires_at - 300

\* submit_ad got 401 to its first request, the refresh that followed was
\* granted, and the second request was answered with success.
RejectedThenGranted ==
    /\ rl_call.op = "submit_ad"
    /\ PreValid
    /\ ~Falsy(rl_call.pre.refresh_token)
    /\ Len(rl_call.ad_responses) = 2
    /\ rl_call.ad_responses[1].kind = "json"
    /\ rl_call.ad_responses[1].code = 401
    /\ rl_call.ad_responses[2].kind = "json"
    /\ rl_call.ad_responses[2].code = 0
    /\ Len(rl_call.refresh_responses) >= 1
    /\ rl_call.refresh_responses[1].code = 0

\* C14 (as stated): submit_ad started with a valid credential and a stored
\* refresh token, whose first request is answered 401, whose refresh is
\* granted and whose second request succeeds, returns success after
\* exactly one refresh attempt.
C14_Original ==
    RejectedThenGranted
    => /\ rl_call.result.status = "success"
       /\ CountIn(rl_call.log, RefreshEvents) = 1

\* C14 (amended): the same, provided the granted credential is itself
\* valid when the retry begins (its lifetime exceeds the 300 second
\* buffer): the call returns success with the platform's ad id after
\* exactly one refresh attempt, made between the two requests.
C14_RetryAfterRefreshSucceeds ==
    (/\ RejectedThenGranted
     /\ ExpiresIn(rl_call.refresh_responses[1].data) > 300)
    => /\ rl_call.result.status = "success"
       /\ rl_call.result.ad_id = rl_call.ad_responses[2].ad_id
       /\ CountIn(rl_call.log, RefreshEvents) = 1
       /\ rl_call.log = <<"ad_401", "refresh_ok", "ad_success">>

C14_Witness ==
    /\ RejectedThenGranted
    /\ ExpiresIn(rl_call.refresh_responses[1].data) > 300
    /\ rl_call.result.status = "success"
    /\ access_token = AT2
    /\ rl_call.pre.access_token = AT1

\* C15: every submit_ad call returns a success or an error result after at
\* most two ad-create requests, and a 401 answer to the second request is
\* returned as an error with no refresh after it.
C15_SubmitBounded ==
    rl_call.op = "submit_ad"
    => /\ rl_call.result.status \in {"success", "error"}
       /\ Len(AdLog) <= 2
       /\ (Len(AdLog) = 2 /\ AdLog[2] = "ad_401"
             => /\ rl_call.result.status = "error"
                /\ rl_call.result.code = 401
                /\ rl_call.log[Len(rl_call.log)] = "ad_401")

C15_Witness ==
    /\ rl_call.op = "submit_ad"
    /\ AdLog = <<"ad_401", "ad_401">>
    /\ rl_call.result.status = "error"
    /\ CountIn(rl_call.log, RefreshEvents) = 1

\* C16: ensure_token with an access token and now < expires_at - 300
\* returns success, leaves the credential as it was and makes no refresh
\* attempt; otherwise it makes exactly one refresh attempt and returns
\* success if the refresh is granted, the 401 error if it is refused or no
\* refresh token is stored.
C16_EnsureToken ==
    rl_call.op = "ensure_token"
    => IF PreValid
       THEN /\ rl_call.result = AuthSuccess
            /\ rl_call.log = <<>>
            /\ access_token = rl_call.pre.access_token
            /\ refresh_token = rl_call.pre.refresh_token
            /\ expires_at = rl_call.pre.expires_at
       ELSE /\ Len(rl_call.log) = 1
            /\ rl_call.log[1] \in RefreshEvents
            /\ (rl_call.log[1] = "refresh_ok") = (rl_call.result = AuthSuccess)
            /\ (rl_call.log[1] # "refresh_ok") = (rl_call.result = SessionExpired)
            /\ (Falsy(rl_call.pre.refresh_token) => rl_call.result = SessionExpired)

C16_Witness ==
    /\ rl_call.op = "ensure_token"
    /\ ~Falsy(rl_call.pre.access_token)
    /\ rl_call.now = rl_call.pre.expires_at - 300
    /\ rl_call.log = <<"refresh_ok">>
    /\ rl_call.result = AuthSuccess
    /\ access_token = AT2

\* C19: submit_ad sends the ad-create request a second time only after a
\* 401 answer to the first one followed by a granted refresh; after a
\* transport exception or another error code on the first request it
\* returns an error and has sent one request.
C19_SecondRequestOnlyAfter401 ==
    rl_call.op = "submit_ad"
    => /\ (Len(AdLog) = 2
             => /\ AdLog[1] = "ad_401"
                /\ \E i \in DOMAIN rl_call.log :
                      /\ rl_call.log[i] = "ad_401"
                      /\ i < Len(rl_call.log)
                      /\ rl_call.log[i + 1] = "refresh_ok")
       /\ (Len(AdLog) >= 1 /\ AdLog[1] \in {"ad_exception", "ad_error"}
             => /\ Len(AdLog) = 1
                /\ rl_call.result.status = "error")

\* C20: submit_ad called with a missing or expired credential, all of whose
\* refresh attempts fail, makes exactly one refresh attempt, sends no
\* ad-create request and returns the 401 error.
C20_OneRefreshThenCredentialFailure ==
    (/\ rl_call.op = "submit_ad"
     /\ ~PreValid
     /\ CountIn(rl_call.log, {"refresh_ok"}) = 0)
    => /\ \/ CountIn(rl_call.log, RefreshEvents) = 1
          \/ CountIn(rl_call.log, RefreshRequests) = 1
       /\ Len(AdLog) = 0
       /\ rl_call.result = SessionExpired

\* The rules of the validation ruleset, on the payload of a submit_ad call.
UiRules(p) ==
    /\ p.campaign.name # None /\ Len(Strip(p.campaign.name)) >= 3
    /\ p.campaign.objective \in {Traffic, Conversions}
    /\ "ad_text" \in DOMAIN p.creative /\ Len(p.creative["ad_text"]) <= 100
    /\ "cta" \in DOMAIN p.creative /\ Len(p.creative["cta"]) > 0
    /\ p.campaign.objective = Conversions => ~Falsy(Get(p.creative, "music_id"))

\* C17: validate_music_id checks the credential first: when ensure_token
\* would return a failure, validate_music_id returns that failure
\* unchanged (here for the MockTikTokAPI of src/src/api_mock.py, as
\* chat_interface calls it).
C17_ValidateReturnsCredentialFailure ==
    (/\ ui_turn.validated
     /\ api_mock_ensure_token(ui_turn.token).status = "error")
    => ui_turn.v_result = api_mock_ensure_token(ui_turn.token)

\* C18: a SUBMIT_AD turn of chat_interface calls api_client.submit_ad only
\* with a configuration that satisfies every rule of the validation
\* ruleset.
C18_SubmitOnlyWithValidConfiguration ==
    ui_turn.submitted => UiRules(ui_turn.payload)

\* C21: AdAgent.process_message asks the model a second time whenever the
\* first response is not parseable as JSON or fails the schema, returns the
\* fallback with action NONE when the second response is bad as well, and
\* never asks more than twice.
C21_RetriesMalformedAndInvalid ==
    pm_call.called =>
        /\ pm_call.calls <= 2
        /\ pm_call.first \in {"malformed", "invalid"} => pm_call.calls = 2
        /\ (pm_call.calls = 2 /\ pm_call.second \in {"malformed", "invalid"})
               => pm_call.action = "NONE" /\ ~pm_call.merged

MentionsMusicId(delta) ==
    /\ "creative_details" \in DOMAIN delta
    /\ "music_id" \in DOMAIN delta["creative_details"]

\* C26: a stored creative_details.music_id survives a merged delta that
\* does not mention music_id.
C26_MergeKeepsMusicId ==
    (/\ pm_call.called
     /\ pm_call.merged
     /\ StateMusic(pm_call.pre) # None
     /\ ~MentionsMusicId(pm_call.delta))
        => StateMusic(collected_data) = StateMusic(pm_call.pre)

\* The strings process_message returns, by the path that built them.
MessageKinds ==
    {"message", "provide_music_id", "music_validated", "music_uploaded",
     "api_error", "validation_failed", "ad_created", "submission_failed",
     "unexpected_error", "exception"}

\* C22: ConversationManager.process_message returns a message after every
\* turn, whatever the language model answered and however the capability
\* call ended, and no exception leaves it; when the language-model call
\* failed the action is collect and no capability is called in that turn.
C22_AlwaysReturnsAMessage ==
    calls > 0 =>
        /\ reply.kind \in MessageKinds
        /\ ~cm_turn.llm_ok =>
              /\ action = "collect"
              /\ cm_turn.capability = "none"
              /\ created = NoCall
              /\ reply.kind = "message"

C22_Witness ==
    /\ calls > 0
    /\ cm_turn.capability = "validate_music_id"
    /\ cm_turn.outcome = "raise"
    /\ reply.kind = "exception"

\* C25: a submit turn that ends in a validation failure, a capability
\* failure or an unexpected exception leaves ad_config as it was when
\* _submit_ad began.
C25_FailedSubmitKeepsConfig ==
    (/\ cm_turn.submit
     /\ reply.kind \in {"validation_failed", "submission_failed", "unexpected_error"})
        => ad_config = cm_turn.submit_pre

C25_Witness ==
    /\ cm_turn.submit
    /\ reply.kind = "submission_failed"
    /\ created # NoCall
    /\ ad_config = cm_turn.submit_pre
    /\ ad_config # EmptyDict

\* C27: messages holds two entries per process_message call since the
\* construction or the last reset, a user entry followed by an assistant
\* entry, and the returned string is the content of the assistant entry
\* that the call appended.
C27_TwoEntriesPerTurn ==
    /\ Len(messages) = 2 * calls
    /\ \A i \in 1..Len(messages) :
          messages[i] = IF i % 2 = 1 THEN "user" ELSE "assistant"
    /\ calls > 0 => cm_turn.appended = reply

C27_Witness ==
    /\ calls = 2
    /\ Len(messages) = 4
    /\ reply.kind = "exception"
    /\ cm_turn.appended = reply

CredentialFailureRequest(code, state) ==
    \/ Falsy(code)
    \/ Falsy(state)
    \/ state \notin issued

\* C23: in live mode the callback calls get_access_token only for a
\* request with a code whose state was issued by an earlier get_auth_url;
\* a request without code, without state, or with a state that was never
\* issued gets an error page and leaves the stored credential as it was.
C23_ExchangeOnlyForIssuedState ==
    cb_call.called =>
        /\ cb_call.exchanged =>
              /\ ~Falsy(cb_call.code)
              /\ ~Falsy(cb_call.state)
              /\ cb_call.state \in issued
        /\ CredentialFailureRequest(cb_call.code, cb_call.state) =>
              /\ ~cb_call.exchanged
              /\ cb_call.page \in {"no_code", "invalid_state"}
              /\ Credentials = cb_call.pre

C23_Witness ==
    /\ cb_call.called
    /\ cb_call.code = Code1
    /\ cb_call.state = ForeignState
    /\ issued # {}
    /\ cb_call.page = "invalid_state"
    /\ Credentials = cb_call.pre

\* C29: verify_state accepts only the state of the most recent
\* get_auth_url, and never a state that an earlier callback was already
\* accepted with.
C29_SingleUseLatestOnly ==
    (cb_call.called /\ cb_call.verified) =>
        /\ cb_call.state = last_issued
        /\ ~cb_call.replay

\* C24: no credential field of the capability object that the conversation
\* thread reads is assigned by the callback thread.
C24_ListenerWritesNoSharedField ==
    \A f \in DOMAIN writer : writer[f] # "listener"

\* C28: under every interleaving of save_token on the callback thread with
\* ensure_token on the conversation thread, the validity test of
\* ensure_token is made on the access token and the expiry of one and the
\* same stored credential.
C28_TestOnOneCredential ==
    et_call.made => <<et_call.access_token, et_call.expires_at>> \in saved

\* C30: /callback of src/oauth_server.py reaches the token exchange only
\* for a request whose state was issued by /authorize in the same session;
\* a request without state in a session that never visited /authorize is
\* rejected and does not set ACCESS_TOKEN.
C30_ExchangeOnlyForSessionState ==
    fl_call.called =>
        /\ fl_call.exchanged => fl_call.state \in fl_call.issued
        /\ (fl_call.state = None /\ fl_call.issued = {}) =>
              /\ fl_call.status = 400
              /\ ~fl_call.exchanged
              /\ ACCESS_TOKEN = fl_call.pre

====
